---- MODULE Spec2Model ----
(***************************************************************************)
(* A model of the frozen_map repository: the FrozenMap / FrozenSet facades  *)
(* and the specialized maps behind them (ScanningMap, IntegerMap,          *)
(* IntegerRangeMap, RightSliceMap over HashTable).                         *)
(*                                                                         *)
(* Keys are integers for the key types u32 and i32 and byte sequences for  *)
(* String.  A 64-bit hash code is a natural number; Option<&V> and         *)
(* Option<(&K,&V)> are records naming the entry slot a reference points to.*)
(***************************************************************************)
EXTENDS Integers, Sequences, FiniteSets, TLC

VARIABLES pc, kind, payload, map, last, sel, peer
vars == <<pc, kind, payload, map, last, sel, peer>>

----------------------------------------------------------------------------
(* Bounds of the model *)

MaxN == 5
MaxKey == 4
MaxSeed == 0
MaxSliceN == 2

(* Program constants *)

SCANNING_LIMIT == 4
MACRO_SCANNING_LIMIT == 3
U8_MAX == 255
U16_MAX == 65535

----------------------------------------------------------------------------
(* Generic helpers *)

Range(s) == {s[i] : i \in DOMAIN s}

Distinct(s) == \A i, j \in DOMAIN s : i # j => s[i] # s[j]

NonDecreasing(s) == \A i \in DOMAIN s : i > 1 => s[i - 1] <= s[i]

NonIncreasing(s) == \A i \in DOMAIN s : i > 1 => s[i - 1] >= s[i]

RECURSIVE SumBytes(_, _)
SumBytes(b, i) == IF i > Len(b) THEN 0 ELSE i * b[i] + SumBytes(b, i + 1)

----------------------------------------------------------------------------
(* Key types, the keys and payloads the model draws *)

HashSpace == 16

(* calls of next() before an iterator is inspected *)
MaxSteps == 2

KeyTypes == {"u32", "i32", "String"}

IsIntType(kt) == kt \in {"u32", "i32"}

(* The strings of the model, as byte sequences. *)
StrPool ==
    << <<>>, <<1>>, <<1, 1>>, <<1, 2>>, <<2, 1>>, <<2, 2>>, <<1, 2, 2>> >>

Pool(kt) ==
    CASE kt = "u32" -> [i \in 1..(MaxKey + 1) |-> i - 1]
      [] kt = "i32" -> [i \in 1..(MaxKey + 1) |-> i - 2]
      [] OTHER -> StrPool

(* Keys that are looked up: every key of the pool and keys outside it. *)
Probes(kt) ==
    CASE kt = "u32" -> 0..(MaxKey + 1)
      [] kt = "i32" -> (-2)..MaxKey
      [] OTHER -> Range(StrPool)

(* Index sequences into the pool: strictly ascending, strictly descending,
   or ascending with the last key repeated once. *)
IndexSeqs(p, n) ==
    {s \in [1..n -> 1..p] :
        \/ NonDecreasing(s) /\ Distinct(s)
        \/ NonIncreasing(s) /\ Distinct(s)
        \/ /\ n >= 2
           /\ NonDecreasing(s)
           /\ \A i, j \in 1..n : (i # j /\ s[i] = s[j]) => {i, j} = {n - 1, n}
           /\ s[n - 1] = s[n]}

(* The payloads Vec<(K, V)> of n entries; the value of entry i is 10 + i. *)
Payloads(kt, n) ==
    {[i \in 1..n |-> <<Pool(kt)[s[i]], 10 + i>>] : s \in IndexSeqs(Len(Pool(kt)), n)}

KeysOf(pl) == [i \in DOMAIN pl |-> pl[i][1]]

KeySet(pl) == {pl[i][1] : i \in DOMAIN pl}

----------------------------------------------------------------------------
(* Hashing *)

(* BuildHasher::build_hasher / Hasher::write / finish over a byte slice:
   a fixed function of the hasher state bh and the bytes. *)
HashBytes(bh, b) == (bh + 3 * Len(b) + SumBytes(b, 1)) % HashSpace

(* The bytes std's Hash feeds for a key: the string's bytes, or the integer's
   low byte. *)
KeyBytes(kt, k) == IF kt = "String" THEN k ELSE <<k % 256>>

(* AsPrimitive<u64>: a negative key wraps; only the code modulo the slot
   count is observed. *)
as_u64(k) == IF k >= 0 THEN k ELSE k + 65536

PANIC == 0 - 1

(* What a call with undefined behaviour (an out-of-bounds or reversed range
   given to get_unchecked) produces: a fault, or the hash of whatever bytes
   were read, chosen by u. *)
UBOutcomes == {PANIC, 0, 1}

UBHash(u, k) == IF u = PANIC THEN PANIC ELSE (u + 5 * Len(k) + SumBytes(k, 1)) % HashSpace

(* SliceHash::hash for String over range lo..hi (0-based, half open). *)
SliceHash_hash(bh, k, lo, hi, u) ==
    IF lo < 0 \/ hi < 0 \/ lo > hi \/ hi > Len(k)
    THEN UBHash(u, k)
    ELSE HashBytes(bh, SubSeq(k, lo + 1, hi))

----------------------------------------------------------------------------
(* Analyzers *)

RECURSIVE NextPow2(_, _)
NextPow2(p, n) == IF p >= n THEN p ELSE NextPow2(2 * p, n)

(* analyze_hash_codes: the bucket count for a sequence of hash codes. *)
analyze_hash_codes(codes) == NextPow2(1, Len(codes))

SetMin(S) == CHOOSE x \in S : \A y \in S : x <= y

SetMax(S) == CHOOSE x \in S : \A y \in S : x >= y

(* analyze_int_keys: Range iff the keys are a permutation of [min, max]
   of at least 2 keys. *)
analyze_int_keys(keys) ==
    IF /\ Len(keys) >= 2
       /\ Distinct(keys)
       /\ SetMax(Range(keys)) - SetMin(Range(keys)) + 1 = Len(keys)
    THEN "Range"
    ELSE "Normal"

LeftWindow(k, start, len) == SubSeq(k, start + 1, start + len)

RightWindow(k, start, len) == SubSeq(k, Len(k) - start - len + 1, Len(k) - start)

Window(k, align, start, len) ==
    IF align = 0 THEN LeftWindow(k, start, len) ELSE RightWindow(k, start, len)

WindowsUnique(keys, align, start, len) ==
    \A i, j \in DOMAIN keys :
        i # j => Window(keys[i], align, start, len) # Window(keys[j], align, start, len)

(* Candidate windows <<len, start, align>> in the order they are tried:
   shortest len first, then smallest start, then Left (0) before Right (1). *)
WindowBefore(c, d) ==
    \/ c[1] < d[1]
    \/ c[1] = d[1] /\ c[2] < d[2]
    \/ c[1] = d[1] /\ c[2] = d[2] /\ c[3] <= d[3]

SliceNormal == [tag |-> "Normal", subslice_index |-> 0, subslice_len |-> 0]

SliceLength == [tag |-> "Length", subslice_index |-> 0, subslice_len |-> 0]

(* analyze_slice_keys *)
analyze_slice_keys(keys) ==
    IF \A i, j \in DOMAIN keys : i # j => Len(keys[i]) # Len(keys[j])
    THEN SliceLength
    ELSE LET lmin == SetMin({Len(keys[i]) : i \in DOMAIN keys})
             cands == {c \in (1..lmin) \X (0..lmin) \X {0, 1} :
                          /\ c[2] + c[1] <= lmin
                          /\ WindowsUnique(keys, c[3], c[2], c[1])}
         IN  IF cands = {} THEN SliceNormal
             ELSE LET c == CHOOSE x \in cands : \A y \in cands : WindowBefore(x, y)
                  IN  [tag |-> IF c[3] = 0 THEN "LeftHandSubslice" ELSE "RightHandSubslice",
                       subslice_index |-> c[2], subslice_len |-> c[1]]

----------------------------------------------------------------------------
(* HashTable<K, V, S> *)

NoTable == [ok |-> FALSE, num_slots |-> 1, slots |-> <<>>, entries |-> <<>>]

EmptySlot == [min_index |-> 0, max_index |-> 0]

(* A TooManyFor that lets one entry more than S::max_value() through. *)
TooManyFor_OneMore(S, count) ==
    \/ S = "u8" /\ count > U8_MAX + 1
    \/ S = "u16" /\ count > U16_MAX + 1

(* S::max_value() is exceeded by count; usize cannot be exceeded. *)
TooManyFor(S, count) ==
    \/ S = "u8" /\ count > U8_MAX
    \/ S = "u16" /\ count > U16_MAX

(* S::from(a).unwrap() + S::from(b).unwrap(), in the width of S *)
S_add(S, a, b) ==
    CASE S = "u8" -> (a + b) % (U8_MAX + 1)
      [] S = "u16" -> (a + b) % (U16_MAX + 1)
      [] OTHER -> a + b

(* sort_unstable_by on hash_slot_index: the items of slots lo..hi, slot by
   slot, the items of one slot in the order they had. *)
RECURSIVE SlotsInOrder(_, _, _)
SlotsInOrder(items, lo, hi) ==
    IF lo = hi THEN SelectSeq(items, LAMBDA item : item.hash_slot_index = lo)
    ELSE LET mid == (lo + hi) \div 2
         IN  SlotsInOrder(items, lo, mid) \o SlotsInOrder(items, mid + 1, hi)

SortBySlot(items) ==
    IF items = <<>> THEN <<>>
    ELSE SlotsInOrder(items,
                      SetMin({items[i].hash_slot_index : i \in DOMAIN items}),
                      SetMax({items[i].hash_slot_index : i \in DOMAIN items}))

(* The number of items at the end of prep_items that share hash_slot_index. *)
RunLength(prep_items, hash_slot_index) ==
    LET n == Len(prep_items)
    IN  CHOOSE r \in 1..n :
            /\ r = n \/ prep_items[n - r].hash_slot_index # hash_slot_index
            /\ \A j \in 1..r : prep_items[n + 1 - j].hash_slot_index = hash_slot_index

(* The while-let loop of HashTable::new: pop the items of one slot, push
   their entries, record the slot's range. *)
RECURSIVE FillSlots(_, _, _, _, _)
FillSlots(prep_items, slots, entries, entry_index, S) ==
    IF prep_items = <<>> THEN [slots |-> slots, entries |-> entries]
    ELSE LET hash_slot_index == prep_items[Len(prep_items)].hash_slot_index
             num_entries == RunLength(prep_items, hash_slot_index)
             popped == [i \in 1..num_entries |-> prep_items[Len(prep_items) + 1 - i].entry]
         IN  FillSlots(SubSeq(prep_items, 1, Len(prep_items) - num_entries),
                       [slots EXCEPT ![hash_slot_index + 1] =
                           [min_index |-> entry_index,
                            max_index |-> S_add(S, entry_index, num_entries)]],
                       entries \o popped,
                       entry_index + num_entries,
                       S)

(* A HashTable::new whose empty table has no slot at all. *)
HashTable_new_NoSlot(pl, num_hash_slots, codes, S) ==
    IF \E i \in DOMAIN codes : codes[i] = PANIC THEN NoTable
    ELSE IF Len(pl) = 0
    THEN [ok |-> TRUE, num_slots |-> 1, slots |-> <<>>, entries |-> <<>>]
    ELSE IF TooManyFor(S, Len(pl)) THEN NoTable
    ELSE LET prep_items == [i \in DOMAIN pl |->
                               [hash_slot_index |-> codes[i] % num_hash_slots,
                                entry |-> pl[i]]]
             filled == FillSlots(SortBySlot(prep_items),
                                 [i \in 1..num_hash_slots |-> EmptySlot], <<>>, 0, S)
         IN  [ok |-> TRUE, num_slots |-> num_hash_slots,
              slots |-> filled.slots, entries |-> filled.entries]

(* A HashTable::new that leaves prep_items in payload order. *)
HashTable_new_Unsorted(pl, num_hash_slots, codes, S) ==
    IF \E i \in DOMAIN codes : codes[i] = PANIC THEN NoTable
    ELSE IF Len(pl) = 0
    THEN [ok |-> TRUE, num_slots |-> 1, slots |-> <<EmptySlot>>, entries |-> <<>>]
    ELSE IF TooManyFor(S, Len(pl)) THEN NoTable
    ELSE LET prep_items == [i \in DOMAIN pl |->
                               [hash_slot_index |-> codes[i] % num_hash_slots,
                                entry |-> pl[i]]]
             filled == FillSlots(prep_items,
                                 [i \in 1..num_hash_slots |-> EmptySlot], <<>>, 0, S)
         IN  [ok |-> TRUE, num_slots |-> num_hash_slots,
              slots |-> filled.slots, entries |-> filled.entries]

(* HashTable::new(payload, num_hash_slots, hash); codes[i] is hash(&payload[i].0),
   PANIC when that call faulted. *)
HashTable_new(pl, num_hash_slots, codes, S) ==
    IF \E i \in DOMAIN codes : codes[i] = PANIC THEN NoTable
    ELSE IF Len(pl) = 0
    THEN [ok |-> TRUE, num_slots |-> 1, slots |-> <<EmptySlot>>, entries |-> <<>>]
    ELSE IF TooManyFor(S, Len(pl)) THEN NoTable
    ELSE LET prep_items == [i \in DOMAIN pl |->
                               [hash_slot_index |-> codes[i] % num_hash_slots,
                                entry |-> pl[i]]]
             filled == FillSlots(SortBySlot(prep_items),
                                 [i \in 1..num_hash_slots |-> EmptySlot], <<>>, 0, S)
         IN  [ok |-> TRUE, num_slots |-> num_hash_slots,
              slots |-> filled.slots, entries |-> filled.entries]

(* HashTable::get_hash_info: the entry range of the slot of hash_code. *)
HashTable_get_hash_info(table, hash_code) ==
    LET hash_slot == table.slots[(hash_code % table.num_slots) + 1]
    IN  [start |-> hash_slot.min_index, end |-> hash_slot.max_index]

----------------------------------------------------------------------------
(* Results of lookups: Option<&V>, Option<(&K, &V)>, or a panic / fault.
   index is the position (1-based) of the entry the references point into. *)

None == [tag |-> "None", index |-> 0, indices |-> <<>>]

Some(i) == [tag |-> "Some", index |-> i, indices |-> <<>>]

SomeMany(is) == [tag |-> "Some", index |-> 0, indices |-> is]

Panicked == [tag |-> "Panic", index |-> 0, indices |-> <<>>]

(* for entry in entries: the first entry of entries[range] whose key is key *)
ScanRange(entries, range, key) ==
    IF range.end > Len(entries) \/ range.start > range.end THEN Panicked
    ELSE LET hits == {i \in (range.start + 1)..range.end : entries[i][1] = key}
         IN  IF hits = {} THEN None ELSE Some(SetMin(hits))

----------------------------------------------------------------------------
(* The specialized maps.  A map is a record: rep names the type, entries its
   entry array; num_slots and slots are the HashTable's, min and max the
   IntegerRangeMap's, start..end the slice maps' range, bh the hasher. *)

NoMap ==
    [rep |-> "none", tag |-> "none", S |-> "u8", entries |-> <<>>, num_slots |-> 1, slots |-> <<>>,
     min |-> 0, max |-> 0, start |-> 0, end |-> 0, bh |-> 0]

TableMap(rep_, S_, table, start_, end_, bh_) ==
    IF ~table.ok THEN NoMap
    ELSE [rep |-> rep_, tag |-> "none", S |-> S_, entries |-> table.entries,
          num_slots |-> table.num_slots, slots |-> table.slots,
          min |-> 0, max |-> 0, start |-> start_, end |-> end_, bh |-> bh_]

TableOf(m) == [ok |-> TRUE, num_slots |-> m.num_slots, slots |-> m.slots, entries |-> m.entries]

(* ---- ScanningMap ---- *)

ScanningMap_from_vec(pl) == [NoMap EXCEPT !.rep = "Scanning", !.entries = pl]

ScanningMap_get(m, key) ==
    ScanRange(m.entries, [start |-> 0, end |-> Len(m.entries)], key)

ScanningMap_get_mut(m, key) ==
    ScanRange(m.entries, [start |-> 0, end |-> Len(m.entries)], key)

ScanningMap_get_key_value(m, key) ==
    ScanRange(m.entries, [start |-> 0, end |-> Len(m.entries)], key)

(* ---- IntegerMap ---- *)

IntegerMap_from_vec(pl, S) ==
    LET codes == [i \in DOMAIN pl |-> as_u64(pl[i][1])]
        code_analysis == analyze_hash_codes(codes)
    IN  TableMap("Integer", S, HashTable_new(pl, code_analysis, codes, S), 0, 0, 0)

IntegerMap_get_hash_info(m, key) == HashTable_get_hash_info(TableOf(m), as_u64(key))

IntegerMap_get(m, key) == ScanRange(m.entries, IntegerMap_get_hash_info(m, key), key)

IntegerMap_get_mut(m, key) == ScanRange(m.entries, IntegerMap_get_hash_info(m, key), key)

IntegerMap_get_key_value(m, key) ==
    ScanRange(m.entries, IntegerMap_get_hash_info(m, key), key)

(* ---- IntegerRangeMap ---- *)

(* payload.sort_by_key(|x| x.0): a stable sort by key; the entries of keys
   lo..hi, key by key, the entries of one key in the order they had. *)
RECURSIVE KeysInOrder(_, _, _)
KeysInOrder(pl, lo, hi) ==
    IF lo = hi THEN SelectSeq(pl, LAMBDA e : e[1] = lo)
    ELSE LET mid == (lo + hi) \div 2
         IN  KeysInOrder(pl, lo, mid) \o KeysInOrder(pl, mid + 1, hi)

SortByKey(pl) ==
    IF pl = <<>> THEN <<>>
    ELSE KeysInOrder(pl, SetMin({pl[i][1] : i \in DOMAIN pl}),
                     SetMax({pl[i][1] : i \in DOMAIN pl}))

I8_MAX == U8_MAX \div 2

I8_MIN == 0 - I8_MAX - 1

(* a - b in the key type K.  A difference outside i8 panics when the build
   checks overflow and wraps otherwise; the wide types of the model never
   reach their limits. *)
K_sub(K, a, b, overflow_checks) ==
    LET d == a - b
    IN  IF K = "i8" /\ (d > I8_MAX \/ d < I8_MIN)
        THEN IF overflow_checks THEN [panic |-> TRUE, value |-> 0]
             ELSE [panic |-> FALSE,
                   value |-> IF d > I8_MAX THEN d - (U8_MAX + 1) ELSE d + (U8_MAX + 1)]
        ELSE [panic |-> FALSE, value |-> d]

(* IntegerRangeMap::<K, V>::from_vec; to_usize() of a negative span is None
   and unwrap panics. *)
IntegerRangeMap_from_vec_K(K, pl, overflow_checks) ==
    IF pl = <<>>
    THEN [NoMap EXCEPT !.rep = "IntegerRange", !.min = 0, !.max = 0, !.entries = <<>>]
    ELSE LET sorted == SortByKey(pl)
             min_ == sorted[1][1]
             max_ == sorted[Len(sorted)][1]
             span == K_sub(K, max_, min_, overflow_checks)
         IN  IF span.panic \/ span.value < 0 THEN NoMap
             ELSE IF span.value # Len(sorted) - 1 THEN NoMap
             ELSE [NoMap EXCEPT !.rep = "IntegerRange", !.min = min_, !.max = max_,
                                !.entries = sorted]

(* from_vec for the key types u32 and i32 *)
IntegerRangeMap_from_vec(pl) == IntegerRangeMap_from_vec_K("wide", pl, TRUE)

(* &self.entries[index] is bounds-checked: out of bounds panics. *)
EntryAt(entries, index) == IF index < Len(entries) THEN Some(index + 1) ELSE Panicked

(* A get that indexes by the key instead of key - min. *)
IntegerRangeMap_get_NoOffset(m, key) ==
    IF key >= m.min /\ key <= m.max THEN EntryAt(m.entries, key) ELSE None

(* IntegerRangeMap::<K, V>::get; to_usize()? of a negative index returns
   None. *)
IntegerRangeMap_get_K(K, m, key, overflow_checks) ==
    IF key >= m.min /\ key <= m.max
    THEN LET index == K_sub(K, key, m.min, overflow_checks)
         IN  IF index.panic THEN Panicked
             ELSE IF index.value < 0 THEN None
             ELSE EntryAt(m.entries, index.value)
    ELSE None

(* get for the key types u32 and i32 *)
IntegerRangeMap_get(m, key) == IntegerRangeMap_get_K("wide", m, key, TRUE)

IntegerRangeMap_get_mut(m, key) ==
    IF key >= m.min /\ key <= m.max THEN EntryAt(m.entries, key - m.min) ELSE None

IntegerRangeMap_get_key_value(m, key) ==
    IF key >= m.min /\ key <= m.max THEN EntryAt(m.entries, key - m.min) ELSE None

(* ---- RightSliceMap ---- *)

(* key.len() - range.start..key.len() - range.end, the range handed to
   SliceHash::hash at construction and at lookup. *)
RightSliceMap_hashed_range(key, start, end) ==
    [start |-> Len(key) - start, end |-> Len(key) - end]

(* The closure of from_vec_with_hasher that feeds analyze_hash_codes. *)
RightSliceMap_analysis_code(bh, key, start, end, u) ==
    IF Len(key) >= end
    THEN LET range == RightSliceMap_hashed_range(key, start, end)
         IN  SliceHash_hash(bh, key, range.start, range.end, u)
    ELSE 0

(* The closure given to HashTable::new: no length guard. *)
RightSliceMap_table_code(bh, key, start, end, u) ==
    LET range == RightSliceMap_hashed_range(key, start, end)
    IN  SliceHash_hash(bh, key, range.start, range.end, u)

RightSliceMap_from_vec_with_hasher(pl, start, end, bh, S, u) ==
    LET codes == [i \in DOMAIN pl |-> RightSliceMap_analysis_code(bh, pl[i][1], start, end, u)]
        code_analysis == analyze_hash_codes(codes)
        table_codes == [i \in DOMAIN pl |-> RightSliceMap_table_code(bh, pl[i][1], start, end, u)]
    IN  IF \E i \in DOMAIN codes : codes[i] = PANIC THEN NoMap
        ELSE TableMap("RightSlice", S, HashTable_new(pl, code_analysis, table_codes, S),
                      start, end, bh)

RightSliceMap_hash_code(m, key, u) ==
    IF Len(key) >= m.start
    THEN LET range == RightSliceMap_hashed_range(key, m.start, m.end)
         IN  SliceHash_hash(m.bh, key, range.start, range.end, u)
    ELSE 0

RightSliceMap_get_hash_info(m, key, u) ==
    HashTable_get_hash_info(TableOf(m), RightSliceMap_hash_code(m, key, u))

RightSliceMap_get(m, key, u) ==
    IF RightSliceMap_hash_code(m, key, u) = PANIC THEN Panicked
    ELSE ScanRange(m.entries, RightSliceMap_get_hash_info(m, key, u), key)

RightSliceMap_get_mut(m, key, u) ==
    IF RightSliceMap_hash_code(m, key, u) = PANIC THEN Panicked
    ELSE ScanRange(m.entries, RightSliceMap_get_hash_info(m, key, u), key)

RightSliceMap_get_key_value(m, key, u) ==
    IF RightSliceMap_hash_code(m, key, u) = PANIC THEN Panicked
    ELSE ScanRange(m.entries, RightSliceMap_get_hash_info(m, key, u), key)

(* ---- CommonMap, LeftSliceMap, LengthMap ---- *)

CommonMap_hash_code(kt, bh, key) == HashBytes(bh, KeyBytes(kt, key))

CommonMap_from_vec_with_hasher(kt, pl, bh, S) ==
    LET codes == [i \in DOMAIN pl |-> CommonMap_hash_code(kt, bh, pl[i][1])]
    IN  TableMap("Common", S, HashTable_new(pl, analyze_hash_codes(codes), codes, S), 0, 0, bh)

CommonMap_get(kt, m, key) ==
    ScanRange(m.entries,
              HashTable_get_hash_info(TableOf(m), CommonMap_hash_code(kt, m.bh, key)), key)

LeftSliceMap_hash_code(bh, key, start, end) ==
    IF Len(key) >= end THEN HashBytes(bh, SubSeq(key, start + 1, end)) ELSE 0

LeftSliceMap_from_vec_with_hasher(pl, start, end, bh, S) ==
    LET codes == [i \in DOMAIN pl |-> LeftSliceMap_hash_code(bh, pl[i][1], start, end)]
    IN  TableMap("LeftSlice", S, HashTable_new(pl, analyze_hash_codes(codes), codes, S),
                 start, end, bh)

LeftSliceMap_get(m, key) ==
    ScanRange(m.entries,
              HashTable_get_hash_info(TableOf(m),
                                      LeftSliceMap_hash_code(m.bh, key, m.start, m.end)), key)

LengthMap_from_vec(pl, S) ==
    LET codes == [i \in DOMAIN pl |-> Len(pl[i][1])]
    IN  TableMap("Length", S, HashTable_new(pl, analyze_hash_codes(codes), codes, S), 0, 0, 0)

LengthMap_get(m, key) ==
    ScanRange(m.entries, HashTable_get_hash_info(TableOf(m), Len(key)), key)

----------------------------------------------------------------------------
(* The facade: which MapTypes / SetTypes variant is selected.  A variant is
   the enum tag and the range start..end handed to a slice map. *)

Variant(tag_, start_, end_) == [tag |-> tag_, start |-> start_, end |-> end_]

NoVariant == Variant("none", 0, 0)

(* A new_u32_map that takes 8-bit descriptors up to 256 entries. *)
new_u32_map_Upto256(n, key_analysis) ==
    IF key_analysis = "Range" THEN Variant("U32Range", 0, 0)
    ELSE IF n <= U8_MAX + 1 THEN Variant("U32Small", 0, 0)
    ELSE Variant("U32Large", 0, 0)

new_u32_map(n, key_analysis) ==
    IF key_analysis = "Range" THEN Variant("U32Range", 0, 0)
    ELSE IF n <= U8_MAX THEN Variant("U32Small", 0, 0)
    ELSE Variant("U32Large", 0, 0)

(* A new_string_map without the size split, handing a slice map the range
   subslice_index..subslice_len. *)
new_string_map_LenAsEnd(n, key_analysis) ==
    CASE key_analysis.tag = "Normal" -> Variant("CommonSmall", 0, 0)
      [] key_analysis.tag = "LeftHandSubslice" ->
           Variant("LeftStringSliceSmall", key_analysis.subslice_index,
                   key_analysis.subslice_len)
      [] key_analysis.tag = "RightHandSubslice" ->
           Variant("RightStringSliceSmall", key_analysis.subslice_index,
                   key_analysis.subslice_len)
      [] key_analysis.tag = "Length" -> Variant("StringLengthSmall", 0, 0)

(* A new_string_map that hands a right-hand window to the left slice map. *)
new_string_map_RightAsLeft(n, key_analysis) ==
    IF n <= U8_MAX
    THEN CASE key_analysis.tag = "Normal" -> Variant("CommonSmall", 0, 0)
           [] key_analysis.tag \in {"LeftHandSubslice", "RightHandSubslice"} ->
                Variant("LeftStringSliceSmall", key_analysis.subslice_index,
                        key_analysis.subslice_index + key_analysis.subslice_len)
           [] key_analysis.tag = "Length" -> Variant("StringLengthSmall", 0, 0)
    ELSE CASE key_analysis.tag \in {"Length", "Normal"} -> Variant("CommonLarge", 0, 0)
           [] key_analysis.tag \in {"LeftHandSubslice", "RightHandSubslice"} ->
                Variant("LeftStringSliceLarge", key_analysis.subslice_index,
                        key_analysis.subslice_index + key_analysis.subslice_len)

new_string_map(n, key_analysis) ==
    IF n <= U8_MAX
    THEN CASE key_analysis.tag = "Normal" -> Variant("CommonSmall", 0, 0)
           [] key_analysis.tag = "LeftHandSubslice" ->
                Variant("LeftStringSliceSmall", key_analysis.subslice_index,
                        key_analysis.subslice_index + key_analysis.subslice_len)
           [] key_analysis.tag = "RightHandSubslice" ->
                Variant("RightStringSliceSmall", key_analysis.subslice_index,
                        key_analysis.subslice_index + key_analysis.subslice_len)
           [] key_analysis.tag = "Length" -> Variant("StringLengthSmall", 0, 0)
    ELSE CASE key_analysis.tag \in {"Length", "Normal"} -> Variant("CommonLarge", 0, 0)
           [] key_analysis.tag = "LeftHandSubslice" ->
                Variant("LeftStringSliceLarge", key_analysis.subslice_index,
                        key_analysis.subslice_index + key_analysis.subslice_len)
           [] key_analysis.tag = "RightHandSubslice" ->
                Variant("RightStringSliceLarge", key_analysis.subslice_index,
                        key_analysis.subslice_index + key_analysis.subslice_len)

new_common_map(n) ==
    IF n <= U8_MAX THEN Variant("CommonSmall", 0, 0) ELSE Variant("CommonLarge", 0, 0)

(* A FrozenMap::new with the threshold of the frozen_map! macro. *)
FrozenMap_new_Below3(kt, n, int_analysis, slice_analysis) ==
    IF n < 3 THEN Variant("Scanning", 0, 0)
    ELSE IF kt = "u32" THEN new_u32_map(n, int_analysis)
    ELSE IF kt = "String" THEN new_string_map(n, slice_analysis)
    ELSE new_common_map(n)

(* FrozenMap::new, given the payload length and the analyses of its keys. *)
FrozenMap_new(kt, n, int_analysis, slice_analysis) ==
    IF n < SCANNING_LIMIT THEN Variant("Scanning", 0, 0)
    ELSE IF kt = "u32" THEN new_u32_map(n, int_analysis)
    ELSE IF kt = "String" THEN new_string_map(n, slice_analysis)
    ELSE new_common_map(n)

new_u32_set(n, key_analysis) ==
    IF key_analysis = "Range" THEN Variant("U32Range", 0, 0)
    ELSE IF n <= U8_MAX THEN Variant("U32Small", 0, 0)
    ELSE Variant("U32Large", 0, 0)

new_string_set(n, key_analysis) ==
    IF n <= U8_MAX
    THEN CASE key_analysis.tag = "Normal" -> Variant("CommonSmall", 0, 0)
           [] key_analysis.tag = "LeftHandSubslice" ->
                Variant("LeftStringSliceSmall", key_analysis.subslice_index,
                        key_analysis.subslice_index + key_analysis.subslice_len)
           [] key_analysis.tag = "RightHandSubslice" ->
                Variant("RightStringSliceSmall", key_analysis.subslice_index,
                        key_analysis.subslice_index + key_analysis.subslice_len)
           [] key_analysis.tag = "Length" -> Variant("StringLengthSmall", 0, 0)
    ELSE CASE key_analysis.tag \in {"Length", "Normal"} -> Variant("CommonLarge", 0, 0)
           [] key_analysis.tag = "LeftHandSubslice" ->
                Variant("LeftStringSliceLarge", key_analysis.subslice_index,
                        key_analysis.subslice_index + key_analysis.subslice_len)
           [] key_analysis.tag = "RightHandSubslice" ->
                Variant("RightStringSliceLarge", key_analysis.subslice_index,
                        key_analysis.subslice_index + key_analysis.subslice_len)

new_common_set(n) ==
    IF n <= U8_MAX THEN Variant("CommonSmall", 0, 0) ELSE Variant("CommonLarge", 0, 0)

(* FrozenSet::new *)
FrozenSet_new(kt, n, int_analysis, slice_analysis) ==
    IF n < SCANNING_LIMIT THEN Variant("Scanning", 0, 0)
    ELSE IF kt = "u32" THEN new_u32_set(n, int_analysis)
    ELSE IF kt = "String" THEN new_string_set(n, slice_analysis)
    ELSE new_common_set(n)

(* frozen_map!: the type the expansion constructs, given the type token of
   the invocation, the number of pairs and the analyses of the keys.  The
   integer analysis runs for the integer type names, the slice analysis for
   "& str" (whose keys become String); any other type name is Common. *)
frozen_map_macro(type_name, n, int_keys, string_keys) ==
    IF n < MACRO_SCANNING_LIMIT
    THEN [map_type |-> "ScanningMap", payload_size |-> "none", start |-> 0, end |-> 0]
    ELSE LET variety == CASE type_name \in {"u32", "i32"} -> "Integer"
                          [] type_name = "& str" -> "String"
                          [] OTHER -> "Common"
             int_analysis == IF variety = "Integer" THEN int_keys ELSE "Normal"
             slice_analysis == IF variety = "String" THEN string_keys ELSE SliceNormal
             map_type ==
                 CASE variety = "Integer" ->
                        IF int_analysis = "Range" THEN "IntegerRangeMap" ELSE "IntegerMap"
                   [] variety = "String" ->
                        (CASE slice_analysis.tag = "Normal" -> "CommonMap"
                           [] slice_analysis.tag = "Length" -> "LengthMap"
                           [] slice_analysis.tag = "LeftHandSubslice" -> "LeftSliceMap"
                           [] slice_analysis.tag = "RightHandSubslice" -> "RightSliceMap")
                   [] variety = "Common" -> "CommonMap"
             payload_size == IF n <= U8_MAX THEN "u8"
                             ELSE IF n <= U16_MAX THEN "u16" ELSE "usize"
         IN  IF slice_analysis.tag \in {"LeftHandSubslice", "RightHandSubslice"}
             THEN [map_type |-> map_type, payload_size |-> payload_size,
                   start |-> slice_analysis.subslice_index,
                   end |-> slice_analysis.subslice_index + slice_analysis.subslice_len]
             ELSE [map_type |-> map_type, payload_size |-> payload_size,
                   start |-> 0, end |-> 0]

(* The representation a specialized map type is. *)
RepOfType(map_type) ==
    CASE map_type = "ScanningMap" -> "Scanning"
      [] map_type = "CommonMap" -> "Common"
      [] map_type = "IntegerMap" -> "Integer"
      [] map_type = "IntegerRangeMap" -> "IntegerRange"
      [] map_type = "LeftSliceMap" -> "LeftSlice"
      [] map_type = "RightSliceMap" -> "RightSlice"
      [] map_type = "LengthMap" -> "Length"

(* The representation and descriptor width a variant stands for. *)
RepOf(tag) ==
    CASE tag = "Scanning" -> "Scanning"
      [] tag \in {"CommonSmall", "CommonLarge"} -> "Common"
      [] tag \in {"U32Small", "U32Large"} -> "Integer"
      [] tag = "U32Range" -> "IntegerRange"
      [] tag \in {"LeftStringSliceSmall", "LeftStringSliceLarge"} -> "LeftSlice"
      [] tag \in {"RightStringSliceSmall", "RightStringSliceLarge"} -> "RightSlice"
      [] tag = "StringLengthSmall" -> "Length"
      [] OTHER -> "none"

WidthOf(tag) ==
    IF tag \in {"CommonLarge", "U32Large", "LeftStringSliceLarge", "RightStringSliceLarge"}
    THEN "usize" ELSE "u8"

(* An analysis of the second components of the pairs instead of the first. *)
IntAnalysisOf_Values(kt, pl) ==
    IF kt = "u32" /\ Len(pl) > 0
    THEN analyze_int_keys([i \in DOMAIN pl |-> pl[i][2]])
    ELSE "Normal"

(* The analyses FrozenMap::new runs on the keys of a payload. *)
IntAnalysisOf(kt, pl) == IF kt = "u32" /\ Len(pl) > 0 THEN analyze_int_keys(KeysOf(pl)) ELSE "Normal"

SliceAnalysisOf(kt, pl) == IF kt = "String" THEN analyze_slice_keys(KeysOf(pl)) ELSE SliceNormal

(* The map a variant holds, built from the payload. *)
MapOfVariant(v, kt, pl, bh, u) ==
    LET m == CASE RepOf(v.tag) = "Scanning" -> ScanningMap_from_vec(pl)
               [] RepOf(v.tag) = "Common" ->
                    CommonMap_from_vec_with_hasher(kt, pl, bh, WidthOf(v.tag))
               [] RepOf(v.tag) = "Integer" -> IntegerMap_from_vec(pl, WidthOf(v.tag))
               [] RepOf(v.tag) = "IntegerRange" -> IntegerRangeMap_from_vec(pl)
               [] RepOf(v.tag) = "LeftSlice" ->
                    LeftSliceMap_from_vec_with_hasher(pl, v.start, v.end, bh, WidthOf(v.tag))
               [] RepOf(v.tag) = "RightSlice" ->
                    RightSliceMap_from_vec_with_hasher(pl, v.start, v.end, bh,
                                                       WidthOf(v.tag), u)
               [] RepOf(v.tag) = "Length" -> LengthMap_from_vec(pl, WidthOf(v.tag))
    IN  IF m.rep = "none" THEN NoMap ELSE [m EXCEPT !.tag = v.tag]

(* FrozenMap::get: the match on map_impl. *)
FrozenMap_get(kt, m, key, u) ==
    CASE m.rep = "Scanning" -> ScanningMap_get(m, key)
      [] m.rep = "Common" -> CommonMap_get(kt, m, key)
      [] m.rep = "Integer" -> IntegerMap_get(m, key)
      [] m.rep = "IntegerRange" -> IntegerRangeMap_get(m, key)
      [] m.rep = "LeftSlice" -> LeftSliceMap_get(m, key)
      [] m.rep = "RightSlice" -> RightSliceMap_get(m, key, u)
      [] m.rep = "Length" -> LengthMap_get(m, key)

FrozenMap_get_key_value(kt, m, key, u) ==
    CASE m.rep = "Scanning" -> ScanningMap_get_key_value(m, key)
      [] m.rep = "Common" -> CommonMap_get(kt, m, key)
      [] m.rep = "Integer" -> IntegerMap_get_key_value(m, key)
      [] m.rep = "IntegerRange" -> IntegerRangeMap_get_key_value(m, key)
      [] m.rep = "LeftSlice" -> LeftSliceMap_get(m, key)
      [] m.rep = "RightSlice" -> RightSliceMap_get_key_value(m, key, u)
      [] m.rep = "Length" -> LengthMap_get(m, key)

FrozenMap_get_mut(kt, m, key, u) ==
    CASE m.rep = "Scanning" -> ScanningMap_get_mut(m, key)
      [] m.rep = "Common" -> CommonMap_get(kt, m, key)
      [] m.rep = "Integer" -> IntegerMap_get_mut(m, key)
      [] m.rep = "IntegerRange" -> IntegerRangeMap_get_mut(m, key)
      [] m.rep = "LeftSlice" -> LeftSliceMap_get(m, key)
      [] m.rep = "RightSlice" -> RightSliceMap_get_mut(m, key, u)
      [] m.rep = "Length" -> LengthMap_get(m, key)

(* contains_key: self.get(key).is_some(); a panic in get propagates *)
FrozenMap_contains_key(kt, m, key, u) == FrozenMap_get(kt, m, key, u)

(* get_many_mut: None on a repeated key; otherwise self.get(key)? for each
   key in turn. *)
RECURSIVE GetEach(_, _, _, _, _, _)
GetEach(kt, m, keys, u, i, acc) ==
    IF i > Len(keys) THEN SomeMany(acc)
    ELSE LET r == FrozenMap_get(kt, m, keys[i], u)
         IN  IF r.tag = "Some" THEN GetEach(kt, m, keys, u, i + 1, Append(acc, r.index))
             ELSE r

FrozenMap_get_many_mut(kt, m, keys, u) ==
    IF \E i \in DOMAIN keys : \E j \in 1..(i - 1) : keys[j] = keys[i] THEN None
    ELSE GetEach(kt, m, keys, u, 1, <<>>)

(* Index: self.get(&index).unwrap(); unwrap of None panics *)
FrozenMap_index(kt, m, key, u) ==
    LET r == FrozenMap_get(kt, m, key, u)
    IN  IF r.tag = "None" THEN Panicked ELSE r

(* IndexMut: self.get_mut(&index).unwrap() *)
FrozenMap_index_mut(kt, m, key, u) ==
    LET r == FrozenMap_get_mut(kt, m, key, u)
    IN  IF r.tag = "None" THEN Panicked ELSE r

(* A len that counts the different keys of the entries. *)
FrozenMap_len_UniqueKeys(m) == Cardinality({m.entries[i][1] : i \in DOMAIN m.entries})

FrozenMap_len(m) == Len(m.entries)

FrozenMap_is_empty(m) == FrozenMap_len(m) = 0

(* Iter: new, next, and the sequence a run of next() to exhaustion yields. *)
Iter_new(entries_) == [entries |-> entries_, index |-> 0]

(* A next that stops one entry early. *)
Iter_next_StopsEarly(it) ==
    IF it.index + 1 < Len(it.entries)
    THEN [item |-> <<it.entries[it.index + 1]>>, it |-> [it EXCEPT !.index = it.index + 1]]
    ELSE [item |-> <<>>, it |-> it]

Iter_next(it) ==
    IF it.index < Len(it.entries)
    THEN [item |-> <<it.entries[it.index + 1]>>, it |-> [it EXCEPT !.index = it.index + 1]]
    ELSE [item |-> <<>>, it |-> it]

RECURSIVE Iter_collect(_)
Iter_collect(it) ==
    LET r == Iter_next(it)
    IN  IF r.item = <<>> THEN <<>> ELSE r.item \o Iter_collect(r.it)

(* A len that forgets the entries already yielded. *)
Iter_len_Whole(it) == Len(it.entries)

(* ExactSizeIterator::len *)
Iter_len(it) == Len(it.entries) - it.index

(* size_hint: (self.len(), Some(self.len())) *)
Iter_size_hint(it) == [lower |-> Iter_len(it), upper |-> Iter_len(it)]

Iter_count(it) == Iter_len(it)

Iter_clone(it) == [entries |-> it.entries, index |-> it.index]

(* j calls of next(), the calls after a None included: the iterator they
   leave and the items they returned. *)
RECURSIVE Iter_advance(_, _, _)
Iter_advance(it, j, acc) ==
    IF j = 0 THEN [it |-> it, items |-> acc]
    ELSE LET r == Iter_next(it)
         IN  Iter_advance(r.it, j - 1, acc \o r.item)

FrozenMap_iter(m) == Iter_new(m.entries)

(* Iterator::fold as Iter inherits it: the accumulator is fed each item next()
   yields; here the closure appends component c of the item. *)
RECURSIVE Iter_fold(_, _, _)
Iter_fold(it, acc, c) ==
    LET r == Iter_next(it)
    IN  IF r.item = <<>> THEN acc ELSE Iter_fold(r.it, Append(acc, r.item[1][c]), c)

(* Keys: new, next (inner.next().map(|x| x.0)), fold over the inner Iter *)
Keys_new(entries_) == [inner |-> Iter_new(entries_)]

Keys_next(ks) ==
    LET r == Iter_next(ks.inner)
    IN  [item |-> IF r.item = <<>> THEN <<>> ELSE <<r.item[1][1]>>, it |-> [inner |-> r.it]]

Keys_fold(ks, init) == Iter_fold(ks.inner, init, 1)

RECURSIVE Keys_collect(_)
Keys_collect(ks) ==
    LET r == Keys_next(ks)
    IN  IF r.item = <<>> THEN <<>> ELSE r.item \o Keys_collect(r.it)

(* Values: new, next (inner.next().map(|x| x.1)), fold over the inner Iter *)
Values_new(entries_) == [inner |-> Iter_new(entries_)]

(* A next that yields the first component of the entry. *)
Values_next_YieldsKey(vs) ==
    LET r == Iter_next(vs.inner)
    IN  [item |-> IF r.item = <<>> THEN <<>> ELSE <<r.item[1][1]>>, it |-> [inner |-> r.it]]

Values_next(vs) ==
    LET r == Iter_next(vs.inner)
    IN  [item |-> IF r.item = <<>> THEN <<>> ELSE <<r.item[1][2]>>, it |-> [inner |-> r.it]]

Values_fold(vs, init) == Iter_fold(vs.inner, init, 2)

RECURSIVE Values_collect(_)
Values_collect(vs) ==
    LET r == Values_next(vs)
    IN  IF r.item = <<>> THEN <<>> ELSE r.item \o Values_collect(r.it)

FrozenMap_keys(m) == Keys_new(m.entries)

FrozenMap_values(m) == Values_new(m.entries)

----------------------------------------------------------------------------
(* Sets.  A set is the map of its values to (); FrozenSet dispatches len,
   iter and contains to the specialized set, which asks its map. *)

Unit == <<>>

(* FrozenSet::from_vec_with_hasher(payload, bh) *)
FrozenSet_from_vec_with_hasher(kt, pl, bh, u) ==
    MapOfVariant(FrozenSet_new(kt, Len(pl), IntAnalysisOf(kt, pl), SliceAnalysisOf(kt, pl)),
                 kt, pl, bh, u)

Set_len(s) == Len(s.entries)

(* contains: self.get(value).is_some(), get being map.get_key_value(value)?.0 *)
Set_contains(kt, s, value, u) == FrozenMap_get_key_value(kt, s, value, u)

(* specialized_sets::Iter: new and next *)
SetIter_new(entries_) == [entries |-> entries_, index |-> 0]

SetIter_next(it) ==
    IF it.index < Len(it.entries)
    THEN [item |-> <<it.entries[it.index + 1][1]>>, it |-> [it EXCEPT !.index = it.index + 1]]
    ELSE [item |-> <<>>, it |-> it]

Set_iter(s) == SetIter_new(s.entries)

(* loop { let item = iter.next()?; if s.contains(item) == want { return Some(item) } } *)
RECURSIVE NextWhere(_, _, _, _, _)
NextWhere(kt, it, s, want, u) ==
    LET r == SetIter_next(it)
    IN  IF r.item = <<>> THEN [item |-> <<>>, it |-> r.it, panic |-> FALSE]
        ELSE LET c == Set_contains(kt, s, r.item[1], u)
             IN  IF c.tag = "Panic" THEN [item |-> <<>>, it |-> r.it, panic |-> TRUE]
                 ELSE IF (c.tag = "Some") = want
                      THEN [item |-> r.item, it |-> r.it, panic |-> FALSE]
                      ELSE NextWhere(kt, r.it, s, want, u)

(* Union::new and Union::next *)
Union_new(s1, s2) == [s1_iter |-> Set_iter(s1), s2_iter |-> Set_iter(s2)]

Union_next(kt, s1, s2, un, u) ==
    IF Set_len(s1) > Set_len(s2)
    THEN LET r == SetIter_next(un.s1_iter)
         IN  IF r.item # <<>>
             THEN [item |-> r.item, un |-> [un EXCEPT !.s1_iter = r.it], panic |-> FALSE]
             ELSE LET q == NextWhere(kt, un.s2_iter, s1, FALSE, u)
                  IN  [item |-> q.item, un |-> [un EXCEPT !.s2_iter = q.it],
                       panic |-> q.panic]
    ELSE LET r == SetIter_next(un.s2_iter)
         IN  IF r.item # <<>>
             THEN [item |-> r.item, un |-> [un EXCEPT !.s2_iter = r.it], panic |-> FALSE]
             ELSE LET q == NextWhere(kt, un.s1_iter, s2, FALSE, u)
                  IN  [item |-> q.item, un |-> [un EXCEPT !.s1_iter = q.it],
                       panic |-> q.panic]

(* What a run of next() to exhaustion yields, and whether it panicked. *)
RECURSIVE Union_collect(_, _, _, _, _, _)
Union_collect(kt, s1, s2, un, u, acc) ==
    LET r == Union_next(kt, s1, s2, un, u)
    IN  IF r.panic THEN [items |-> acc, panic |-> TRUE]
        ELSE IF r.item = <<>> THEN [items |-> acc, panic |-> FALSE]
        ELSE Union_collect(kt, s1, s2, r.un, u, acc \o r.item)

(* Union::size_hint *)
Union_size_hint(s1, s2) == [lower |-> Set_len(s1), upper |-> Set_len(s1) + Set_len(s2)]

(* The union iterator after j calls of next(), or after the call that
   returned None or panicked. *)
RECURSIVE Union_advance(_, _, _, _, _, _)
Union_advance(kt, s1, s2, un, u, j) ==
    IF j = 0 THEN [un |-> un, panic |-> FALSE]
    ELSE LET r == Union_next(kt, s1, s2, un, u)
         IN  IF r.panic THEN [un |-> r.un, panic |-> TRUE]
             ELSE IF r.item = <<>> THEN [un |-> r.un, panic |-> FALSE]
             ELSE Union_advance(kt, s1, s2, r.un, u, j - 1)

(* Intersection::new and Intersection::next *)
Intersection_new(s1, s2) == [s1_iter |-> Set_iter(s1), s2_iter |-> Set_iter(s2)]

Intersection_next(kt, s1, s2, xn, u) ==
    IF Set_len(s1) < Set_len(s2)
    THEN LET q == NextWhere(kt, xn.s1_iter, s2, TRUE, u)
         IN  [item |-> q.item, xn |-> [xn EXCEPT !.s1_iter = q.it], panic |-> q.panic]
    ELSE LET q == NextWhere(kt, xn.s2_iter, s1, TRUE, u)
         IN  [item |-> q.item, xn |-> [xn EXCEPT !.s2_iter = q.it], panic |-> q.panic]

RECURSIVE Intersection_collect(_, _, _, _, _, _)
Intersection_collect(kt, s1, s2, xn, u, acc) ==
    LET r == Intersection_next(kt, s1, s2, xn, u)
    IN  IF r.panic THEN [items |-> acc, panic |-> TRUE]
        ELSE IF r.item = <<>> THEN [items |-> acc, panic |-> FALSE]
        ELSE Intersection_collect(kt, s1, s2, r.xn, u, acc \o r.item)

(* iter.all(|v| s.contains(v) == want): "true", "false" or "panic" *)
RECURSIVE All(_, _, _, _, _)
All(kt, it, s, want, u) ==
    LET r == SetIter_next(it)
    IN  IF r.item = <<>> THEN "true"
        ELSE LET c == Set_contains(kt, s, r.item[1], u)
             IN  IF c.tag = "Panic" THEN "panic"
                 ELSE IF (c.tag = "Some") = want THEN All(kt, r.it, s, want, u)
                 ELSE "false"

(* set_ops: the first test compares s1.len() with itself *)
is_disjoint(kt, s1, s2, u) ==
    IF Set_len(s1) <= Set_len(s1)
    THEN All(kt, Set_iter(s1), s2, FALSE, u)
    ELSE All(kt, Set_iter(s2), s1, FALSE, u)

is_subset(kt, s1, s2, u) ==
    IF Set_len(s1) <= Set_len(s2)
    THEN All(kt, Set_iter(s1), s2, TRUE, u)
    ELSE "false"

is_superset(kt, s1, s2, u) ==
    IF Set_len(s2) <= Set_len(s1)
    THEN All(kt, Set_iter(s2), s1, TRUE, u)
    ELSE "false"

----------------------------------------------------------------------------
(* The state machine: one map is built from a payload, then read. *)

NoLast ==
    [op |-> "none", keys |-> <<>>, res |-> None, items |-> <<>>, n |-> 0, flag |-> FALSE,
     flags |-> <<>>]

NoSel ==
    [facade |-> "none", kt |-> "u32", n |-> 0, int_analysis |-> "Normal",
     slice_analysis |-> SliceNormal, out |-> NoVariant, other |-> <<>>, out2 |-> NoVariant]

(* The ranges a RightSliceMap is built with directly. *)
RightRanges == {<<0, 1>>, <<1, 1>>}

Init ==
    /\ pc = "new"
    /\ kind = "u32"
    /\ payload = <<>>
    /\ map = NoMap
    /\ last = NoLast
    /\ sel = NoSel
    /\ peer = NoMap

Built(kt, pl, m) ==
    /\ kind' = kt
    /\ payload' = pl
    /\ map' = m
    /\ pc' = IF m.rep = "none" THEN "panicked" ELSE "built"
    /\ UNCHANGED <<last, sel, peer>>

(* FrozenMap::from_vec_with_hasher(payload, bh) *)
BuildFacade ==
    /\ pc = "new"
    /\ \E kt \in KeyTypes, n \in 0..MaxN, bh \in 0..MaxSeed, u \in UBOutcomes :
           \E pl \in Payloads(kt, n) :
               Built(kt, pl,
                     MapOfVariant(FrozenMap_new(kt, Len(pl), IntAnalysisOf(kt, pl),
                                                SliceAnalysisOf(kt, pl)),
                                  kt, pl, bh, u))

(* FrozenMap::default() *)
BuildDefault ==
    /\ pc = "new"
    /\ \E kt \in KeyTypes :
           Built(kt, <<>>, [ScanningMap_from_vec(<<>>) EXCEPT !.tag = "Scanning"])

(* ScanningMap::from_vec(payload) *)
BuildScanning ==
    /\ pc = "new"
    /\ \E kt \in KeyTypes, n \in 0..MaxN :
           \E pl \in Payloads(kt, n) :
               Built(kt, pl, [ScanningMap_from_vec(pl) EXCEPT !.tag = "direct"])

(* IntegerMap::<K, V, u8>::from_vec(payload) *)
BuildIntegerMap ==
    /\ pc = "new"
    /\ \E kt \in {"u32", "i32"}, n \in 0..MaxN :
           \E pl \in Payloads(kt, n) :
               Built(kt, pl, [IntegerMap_from_vec(pl, "u8") EXCEPT !.tag = "direct"])

(* IntegerRangeMap::from_vec(payload); a panic leaves no map *)
BuildIntegerRange ==
    /\ pc = "new"
    /\ \E kt \in {"u32", "i32"}, n \in 0..MaxN :
           \E pl \in Payloads(kt, n) :
               LET m == IntegerRangeMap_from_vec(pl)
               IN  Built(kt, pl, IF m.rep = "none" THEN NoMap ELSE [m EXCEPT !.tag = "direct"])

(* RightSliceMap::<String, V, u8, BH>::from_vec_with_hasher(payload, range, bh) *)
BuildRightSlice ==
    /\ pc = "new"
    /\ \E n \in 0..MaxSliceN, r \in RightRanges, bh \in 0..MaxSeed, u \in UBOutcomes :
           \E pl \in Payloads("String", n) :
               LET m == RightSliceMap_from_vec_with_hasher(pl, r[1], r[2], bh, "u8", u)
               IN  Built("String", pl,
                         IF m.rep = "none" THEN NoMap ELSE [m EXCEPT !.tag = "direct"])

Did(op_, keys_, res_) ==
    /\ pc = "built"
    /\ last' = [NoLast EXCEPT !.op = op_, !.keys = keys_, !.res = res_]
    /\ pc' = "done"
    /\ UNCHANGED <<kind, payload, map, sel, peer>>

Get ==
    \E key \in Probes(kind), u \in UBOutcomes :
        Did("get", <<key>>, FrozenMap_get(kind, map, key, u))

GetMut ==
    \E key \in Probes(kind), u \in UBOutcomes :
        Did("get_mut", <<key>>, FrozenMap_get_mut(kind, map, key, u))

GetKeyValue ==
    \E key \in Probes(kind), u \in UBOutcomes :
        Did("get_key_value", <<key>>, FrozenMap_get_key_value(kind, map, key, u))

ContainsKey ==
    \E key \in Probes(kind), u \in UBOutcomes :
        /\ pc = "built"
        /\ LET r == FrozenMap_contains_key(kind, map, key, u)
           IN  last' = [NoLast EXCEPT !.op = "contains_key", !.keys = <<key>>,
                                      !.res = IF r.tag = "Panic" THEN Panicked ELSE None,
                                      !.flag = (r.tag = "Some")]
        /\ pc' = "done"
        /\ UNCHANGED <<kind, payload, map, sel, peer>>

GetManyMut ==
    \E k1 \in Probes(kind), k2 \in Probes(kind), u \in UBOutcomes :
        Did("get_many_mut", <<k1, k2>>, FrozenMap_get_many_mut(kind, map, <<k1, k2>>, u))

Index ==
    \E key \in Probes(kind), u \in UBOutcomes :
        Did("index", <<key>>, FrozenMap_index(kind, map, key, u))

IndexMut ==
    \E key \in Probes(kind), u \in UBOutcomes :
        Did("index_mut", <<key>>, FrozenMap_index_mut(kind, map, key, u))

(* The map after the value v is stored through the reference to slot i. *)
Store(m, i, v) == [m EXCEPT !.entries[i] = <<m.entries[i][1], v>>]

RECURSIVE StoreEach(_, _, _)
StoreEach(m, is, vs) ==
    IF is = <<>> THEN m
    ELSE StoreEach(Store(m, Head(is), Head(vs)), Tail(is), Tail(vs))

(* The value the n-th write of a run stores. *)
Fresh(n) == 100 + n

(* The writes made so far, oldest first, as <<key, value>> pairs. *)
Writes == IF last.op \in {"get_mut", "index_mut", "get_many_mut"} THEN last.items ELSE <<>>

Wrote(op_, keys_, res_, m, ws, pc_) ==
    /\ map' = m
    /\ last' = [NoLast EXCEPT !.op = op_, !.keys = keys_, !.res = res_, !.items = ws]
    /\ pc' = pc_
    /\ UNCHANGED <<kind, payload, sel, peer>>

(* *map.get_mut(&key).unwrap() = v, once or a second time *)
Write ==
    /\ pc \in {"built", "written"}
    /\ \E key \in Probes(kind), u \in UBOutcomes :
           LET r == FrozenMap_get_mut(kind, map, key, u)
               v == Fresh(Len(Writes) + 1)
           IN  /\ r.tag = "Some"
               /\ Wrote("get_mut", <<key>>, r, Store(map, r.index, v),
                        Append(Writes, <<key, v>>),
                        IF pc = "built" THEN "written" ELSE "rewritten")

(* map[key] = v *)
WriteIndex ==
    /\ pc = "built"
    /\ \E key \in Probes(kind), u \in UBOutcomes :
           LET r == FrozenMap_index_mut(kind, map, key, u)
           IN  /\ r.tag = "Some"
               /\ Wrote("index_mut", <<key>>, r, Store(map, r.index, Fresh(1)),
                        <<<<key, Fresh(1)>>>>, "rewritten")

(* let [a, b] = map.get_many_mut([&k1, &k2]).unwrap(); *a = v1; *b = v2 *)
WriteMany ==
    /\ pc = "built"
    /\ \E k1 \in Probes(kind), k2 \in Probes(kind), u \in UBOutcomes :
           LET r == FrozenMap_get_many_mut(kind, map, <<k1, k2>>, u)
           IN  /\ r.tag = "Some"
               /\ Wrote("get_many_mut", <<k1, k2>>, r,
                        StoreEach(map, r.indices, <<Fresh(1), Fresh(2)>>),
                        <<<<k1, Fresh(1)>>, <<k2, Fresh(2)>>>>, "rewritten")

(* get(k) for each key written, in the order of the writes *)
ReadBack ==
    /\ pc \in {"written", "rewritten"}
    /\ \E u \in UBOutcomes :
           /\ last' = [NoLast EXCEPT !.op = "read_back", !.keys = KeysOf(Writes),
                                     !.items = Writes,
                                     !.res = GetEach(kind, map, KeysOf(Writes), u, 1, <<>>)]
    /\ pc' = "done"
    /\ UNCHANGED <<kind, payload, map, sel, peer>>

LenIsEmpty ==
    /\ pc = "built"
    /\ last' = [NoLast EXCEPT !.op = "len", !.n = FrozenMap_len(map),
                              !.flag = FrozenMap_is_empty(map)]
    /\ pc' = "done"
    /\ UNCHANGED <<kind, payload, map, sel, peer>>

Iterate ==
    /\ pc = "built"
    /\ last' = [NoLast EXCEPT !.op = "iter", !.items = Iter_collect(FrozenMap_iter(map))]
    /\ pc' = "done"
    /\ UNCHANGED <<kind, payload, map, sel, peer>>

(* keys(), drained by next() or by fold() *)
IterateKeys ==
    /\ pc = "built"
    /\ \E by_fold \in BOOLEAN :
           last' = [NoLast EXCEPT !.op = "keys", !.flag = by_fold,
                                  !.items = IF by_fold
                                            THEN Keys_fold(FrozenMap_keys(map), <<>>)
                                            ELSE Keys_collect(FrozenMap_keys(map))]
    /\ pc' = "done"
    /\ UNCHANGED <<kind, payload, map, sel, peer>>

(* values(), drained by next() or by fold() *)
IterateValues ==
    /\ pc = "built"
    /\ \E by_fold \in BOOLEAN :
           last' = [NoLast EXCEPT !.op = "values", !.flag = by_fold,
                                  !.items = IF by_fold
                                            THEN Values_fold(FrozenMap_values(map), <<>>)
                                            ELSE Values_collect(FrozenMap_values(map))]
    /\ pc' = "done"
    /\ UNCHANGED <<kind, payload, map, sel, peer>>

(* let mut it = map.iter(); j calls of it.next(); then it.len(),
   it.size_hint(), it.clone().count(), and it.clone() and it drained *)
IterateSteps ==
    /\ pc = "built"
    /\ \E j \in 0..(MaxN + 1) :
           LET adv == Iter_advance(FrozenMap_iter(map), j, <<>>)
               hint == Iter_size_hint(adv.it)
           IN  last' = [NoLast EXCEPT
                           !.op = "iter_steps", !.n = j, !.items = adv.items,
                           !.keys = <<Iter_len(adv.it), hint.lower, hint.upper,
                                      Iter_count(Iter_clone(adv.it)), adv.it.index>>,
                           !.flag = (Iter_collect(Iter_clone(adv.it)) = Iter_collect(adv.it)),
                           !.res = SomeMany(Iter_collect(Iter_clone(adv.it)))]
    /\ pc' = "done"
    /\ UNCHANGED <<kind, payload, map, sel, peer>>

Next ==
    \/ BuildFacade
    \/ BuildDefault
    \/ BuildScanning
    \/ BuildIntegerMap
    \/ BuildIntegerRange
    \/ BuildRightSlice
    \/ Get
    \/ GetMut
    \/ GetKeyValue
    \/ ContainsKey
    \/ GetManyMut
    \/ Index
    \/ IndexMut
    \/ Write
    \/ WriteIndex
    \/ WriteMany
    \/ ReadBack
    \/ LenIsEmpty
    \/ Iterate
    \/ IterateKeys
    \/ IterateValues
    \/ IterateSteps

Spec == Init /\ [][Next]_vars

----------------------------------------------------------------------------
(* The selection of the facades alone: the inputs of FrozenMap::new and
   FrozenSet::new are the key type, the payload length and what the
   analyzers returned for the keys; lengths reach past u8::MAX. *)

SelectSizes == (0..MaxN) \cup ((U8_MAX - 1)..(U8_MAX + 2))

SliceResults ==
    {SliceNormal, SliceLength}
    \cup {[tag |-> t, subslice_index |-> s, subslice_len |-> l] :
              t \in {"LeftHandSubslice", "RightHandSubslice"}, s \in 0..1, l \in 1..2}

(* An analysis result some payload of n keys of type kt produces: a Range
   or a unique window needs two keys or more, and n keys cannot differ in a
   window of l bytes when n > 256^l. *)
Realizable(kt, n, int_analysis, slice_analysis) ==
    /\ IsIntType(kt) => slice_analysis = SliceNormal
    /\ ~IsIntType(kt) => int_analysis = "Normal"
    /\ int_analysis = "Range" => n >= 2
    /\ slice_analysis.tag \in {"LeftHandSubslice", "RightHandSubslice"} =>
           /\ n >= 2
           /\ n <= (U8_MAX + 1) ^ slice_analysis.subslice_len

InitSelect ==
    /\ pc = "select"
    /\ kind = "u32"
    /\ payload = <<>>
    /\ map = NoMap
    /\ last = NoLast
    /\ peer = NoMap
    /\ sel \in {s \in [facade : {"none"}, kt : KeyTypes, n : SelectSizes,
                        int_analysis : {"Normal", "Range"},
                        slice_analysis : SliceResults, out : {NoVariant},
                        other : {<<>>}, out2 : {NoVariant}] :
                    Realizable(s.kt, s.n, s.int_analysis, s.slice_analysis)}

SelectMap ==
    /\ pc = "select"
    /\ sel' = [sel EXCEPT !.facade = "FrozenMap",
                          !.out = FrozenMap_new(sel.kt, sel.n, sel.int_analysis,
                                                sel.slice_analysis)]
    /\ pc' = "selected"
    /\ UNCHANGED <<kind, payload, map, last, peer>>

SelectSet ==
    /\ pc = "select"
    /\ sel' = [sel EXCEPT !.facade = "FrozenSet",
                          !.out = FrozenSet_new(sel.kt, sel.n, sel.int_analysis,
                                                sel.slice_analysis)]
    /\ pc' = "selected"
    /\ UNCHANGED <<kind, payload, map, last, peer>>

(* The type tokens frozen_map! is invoked with for keys of type kt. *)
TypeNames(kt) == IF kt = "String" THEN {"& str", "String"} ELSE {kt}

(* frozen_map!(ty, pairs) next to FrozenMap::new on the same pairs *)
SelectMacro ==
    /\ pc = "select"
    /\ \E type_name \in TypeNames(sel.kt) :
           /\ kind' = type_name
           /\ sel' = [sel EXCEPT !.facade = "frozen_map!",
                                 !.out = frozen_map_macro(type_name, sel.n, sel.int_analysis,
                                                          sel.slice_analysis),
                                 !.out2 = FrozenMap_new(sel.kt, sel.n, sel.int_analysis,
                                                        sel.slice_analysis)]
    /\ pc' = "expanded"
    /\ UNCHANGED <<payload, map, last, peer>>

NextSelect ==
    \/ SelectMap
    \/ SelectSet
    \/ SelectMacro

SpecSelect == InitSelect /\ [][NextSelect]_vars

----------------------------------------------------------------------------
(* Two payloads with the same keys in the same order and other values, both
   given to FrozenMap::new. *)

ValueMaps == {"double", "shift", "zero"}

Revalue(pl, f) ==
    [i \in DOMAIN pl |->
        <<pl[i][1], CASE f = "double" -> 2 * pl[i][2]
                      [] f = "shift" -> pl[i][2] + 7
                      [] OTHER -> 0>>]

InitPair ==
    /\ pc = "pair"
    /\ kind \in KeyTypes
    /\ payload \in UNION {Payloads(kind, n) : n \in 1..MaxN}
    /\ map = NoMap
    /\ last = NoLast
    /\ peer = NoMap
    /\ sel \in {[NoSel EXCEPT !.other = Revalue(payload, f)] : f \in ValueMaps}

SelectPair ==
    /\ pc = "pair"
    /\ sel' = [sel EXCEPT
                  !.facade = "FrozenMap", !.kt = kind, !.n = Len(payload),
                  !.int_analysis = IntAnalysisOf(kind, payload),
                  !.slice_analysis = SliceAnalysisOf(kind, payload),
                  !.out = FrozenMap_new(kind, Len(payload), IntAnalysisOf(kind, payload),
                                        SliceAnalysisOf(kind, payload)),
                  !.out2 = FrozenMap_new(kind, Len(sel.other),
                                         IntAnalysisOf(kind, sel.other),
                                         SliceAnalysisOf(kind, sel.other))]
    /\ pc' = "paired"
    /\ UNCHANGED <<kind, payload, map, last, peer>>

NextPair == SelectPair

SpecPair == InitPair /\ [][NextPair]_vars

----------------------------------------------------------------------------
(* Two sets a (map) and b (peer) of the same value type are built from the
   payloads payload and sel.other, then one set operation is run on them. *)

SetKinds == {"u32", "String"}

(* The payloads Vec<T> of a set: values in pool order; for u32 also with the
   last value repeated. *)
SetPayloads(kt) ==
    UNION {{[i \in 1..n |-> <<Pool(kt)[s[i]], Unit>>] :
               s \in {t \in IndexSeqs(Len(Pool(kt)), n) :
                          NonDecreasing(t) /\ (kt = "String" => Distinct(t))}} :
           n \in 0..MaxN}

InitSets ==
    /\ pc = "no_set"
    /\ kind \in SetKinds
    /\ payload = <<>>
    /\ map = NoMap
    /\ last = NoLast
    /\ sel = NoSel
    /\ peer = NoMap

(* let a = FrozenSet::from_vec_with_hasher(payload, bh) *)
BuildSetA ==
    /\ pc = "no_set"
    /\ \E pl \in SetPayloads(kind), bh \in 0..MaxSeed, u \in UBOutcomes :
           LET s == FrozenSet_from_vec_with_hasher(kind, pl, bh, u)
           IN  /\ payload' = pl
               /\ map' = s
               /\ pc' = IF s.rep = "none" THEN "panicked" ELSE "one_set"
    /\ UNCHANGED <<kind, last, sel, peer>>

(* let b = FrozenSet::from_vec_with_hasher(other, bh) *)
BuildSetB ==
    /\ pc = "one_set"
    /\ \E pl \in SetPayloads(kind), bh \in 0..MaxSeed, u \in UBOutcomes :
           LET s == FrozenSet_from_vec_with_hasher(kind, pl, bh, u)
           IN  /\ sel' = [sel EXCEPT !.other = pl]
               /\ peer' = s
               /\ pc' = IF s.rep = "none" THEN "panicked" ELSE "two_sets"
    /\ UNCHANGED <<kind, payload, map, last>>

Ran(op_, items_, flags_, panic) ==
    /\ last' = [NoLast EXCEPT !.op = op_, !.items = items_, !.flags = flags_,
                              !.res = IF panic THEN Panicked ELSE None]
    /\ pc' = "done"
    /\ UNCHANGED <<kind, payload, map, sel, peer>>

(* a.union(&b), drained *)
UnionOp ==
    /\ pc = "two_sets"
    /\ \E u \in UBOutcomes :
           LET r == Union_collect(kind, map, peer, Union_new(map, peer), u, <<>>)
           IN  Ran("union", r.items, <<>>, r.panic)

(* a.intersection(&b), drained *)
IntersectionOp ==
    /\ pc = "two_sets"
    /\ \E u \in UBOutcomes :
           LET r == Intersection_collect(kind, map, peer, Intersection_new(map, peer), u, <<>>)
           IN  Ran("intersection", r.items, <<>>, r.panic)

(* a.is_disjoint(&b), b.is_disjoint(&a) and a.intersection(&b) *)
IsDisjoint ==
    /\ pc = "two_sets"
    /\ \E u \in UBOutcomes :
           LET ab == is_disjoint(kind, map, peer, u)
               ba == is_disjoint(kind, peer, map, u)
               r == Intersection_collect(kind, map, peer, Intersection_new(map, peer), u, <<>>)
           IN  Ran("is_disjoint", r.items, <<ab = "true", ba = "true">>,
                   r.panic \/ "panic" \in {ab, ba})

(* a.is_subset(&b) and b.is_superset(&a) *)
IsSubset ==
    /\ pc = "two_sets"
    /\ \E u \in UBOutcomes :
           LET sub == is_subset(kind, map, peer, u)
               sup == is_superset(kind, peer, map, u)
           IN  Ran("is_subset", <<>>, <<sub = "true", sup = "true">>, "panic" \in {sub, sup})

(* let mut un = a.union(&b); j calls of un.next(); un.size_hint(); then the
   rest of un drained *)
UnionSizeHint ==
    /\ pc = "two_sets"
    /\ \E u \in UBOutcomes, j \in 0..MaxSteps :
           LET adv == Union_advance(kind, map, peer, Union_new(map, peer), u, j)
               hint == Union_size_hint(map, peer)
               rest == Union_collect(kind, map, peer, adv.un, u, <<>>)
           IN  /\ last' = [NoLast EXCEPT !.op = "union_size_hint", !.n = j,
                                         !.keys = <<hint.lower, hint.upper>>,
                                         !.items = rest.items,
                                         !.res = IF adv.panic \/ rest.panic
                                                 THEN Panicked ELSE None]
               /\ pc' = "done"
    /\ UNCHANGED <<kind, payload, map, sel, peer>>

NextSets ==
    \/ BuildSetA
    \/ BuildSetB
    \/ UnionOp
    \/ IntersectionOp
    \/ IsDisjoint
    \/ IsSubset
    \/ UnionSizeHint

SpecSets == InitSets /\ [][NextSets]_vars

----------------------------------------------------------------------------
(* Properties.  Under Spec a state with pc = "done" records in last the one
   call made on the map built from payload. *)

IsLookup(ops) == pc = "done" /\ last.op \in ops

LookedUp == last.keys[1]

(* The entry of the payload with key k, when the keys are pairwise distinct. *)
PayloadEntry(k) == CHOOSE e \in Range(payload) : e[1] = k

FacadeBuilt == map.rep # "none" /\ map.tag # "direct"

(* C1: for a map built from a payload (by the facade or directly) whose keys
   are pairwise distinct, and a pair (k, v) of the payload: get(k) is Some(v),
   get_key_value(k) is the pair (k, v), and contains_key(k) is true. *)
C1_StoredKeyIsFound ==
    (/\ IsLookup({"get", "get_key_value", "contains_key"})
     /\ Distinct(KeysOf(payload))
     /\ LookedUp \in KeySet(payload))
    => IF last.op = "contains_key"
       THEN last.res.tag # "Panic" /\ last.flag
       ELSE /\ last.res.tag = "Some"
            /\ map.entries[last.res.index] = PayloadEntry(LookedUp)

(* C2: for a map built from a payload whose keys are pairwise distinct and a
   key that is not a key of the payload, get, get_mut and get_key_value
   return None and contains_key is false, in every representation, and none
   of them panics. *)
C2_AbsentKeyIsAbsent ==
    (/\ IsLookup({"get", "get_mut", "get_key_value", "contains_key"})
     /\ Distinct(KeysOf(payload))
     /\ LookedUp \notin KeySet(payload))
    => last.res = None /\ ~last.flag

(* C3, as stated: len() is the number of unique keys of the payload, and
   is_empty() is true exactly when that number is 0. *)
C3_LenIsUniqueKeyCount ==
    IsLookup({"len"})
    => /\ last.n = Cardinality(KeySet(payload))
       /\ last.flag <=> (Cardinality(KeySet(payload)) = 0)

(* C3, amended: len() is the number of entries of the payload, duplicates
   counted (so the number of unique keys when the keys are pairwise
   distinct), and is_empty() is true exactly when the payload is empty. *)
C3_LenIsEntryCount ==
    IsLookup({"len"})
    => /\ last.n = Len(payload)
       /\ Distinct(KeysOf(payload)) => last.n = Cardinality(KeySet(payload))
       /\ last.flag <=> (payload = <<>>)

(* len() of a built map whose payload repeats a key *)
C3_Witness ==
    /\ IsLookup({"len"})
    /\ map.rep = "Integer"
    /\ ~Distinct(KeysOf(payload))
    /\ last.n = Len(payload)
    /\ last.n > Cardinality(KeySet(payload))

(* C4: iter() yields exactly len() entries, no stored entry twice, and what it
   yields is the payload's entries: the same keys, each with its input
   value. *)
C4_IterYieldsThePayload ==
    IsLookup({"iter"})
    => /\ Len(last.items) = FrozenMap_len(map)
       /\ Len(last.items) = Len(payload)
       /\ Distinct(last.items)
       /\ Range(last.items) = Range(payload)
       /\ KeySet(last.items) = KeySet(payload)

(* iter() over a hash table that stores the payload in another order *)
C4_Witness ==
    /\ IsLookup({"iter"})
    /\ map.rep \in {"Integer", "Common", "Length"}
    /\ Len(payload) >= 4
    /\ last.items # payload
    /\ Range(last.items) = Range(payload)

(* C5: on a map built from a payload whose keys are pairwise distinct,
   get_many_mut(ks) is Some exactly when the keys ks are pairwise distinct
   and all present, and None otherwise; element i of a Some refers to the
   slot of ks[i], and the slots are pairwise different. *)
C5_GetManyMut ==
    (IsLookup({"get_many_mut"}) /\ Distinct(KeysOf(payload)))
    => IF Distinct(last.keys) /\ Range(last.keys) \subseteq KeySet(payload)
       THEN /\ last.res.tag = "Some"
            /\ Len(last.res.indices) = Len(last.keys)
            /\ \A i \in DOMAIN last.keys :
                   map.entries[last.res.indices[i]][1] = last.keys[i]
            /\ Distinct(last.res.indices)
       ELSE last.res = None

(* C6: on a ScanningMap, IntegerMap or IntegerRangeMap (direct or behind the
   facade) built from an empty payload, get(k) is None for every k, 0
   included, without a panic, and iter() yields nothing. *)
C6_EmptyMapIsEmpty ==
    (/\ pc = "done"
     /\ payload = <<>>
     /\ map.rep \in {"Scanning", "Integer", "IntegerRange"})
    => /\ last.op = "get" => last.res = None
       /\ last.op = "iter" => last.items = <<>>

(* C7: on an IntegerRangeMap built from the keys min..=max (each once, in
   any order), get, get_mut and get_key_value return the stored entry for
   every key in [min, max] and None for min - 1 and max + 1. *)
C7_RangeMapLookup ==
    (/\ IsLookup({"get", "get_mut", "get_key_value"})
     /\ map.rep = "IntegerRange"
     /\ payload # <<>>
     /\ Distinct(KeysOf(payload)))
    => LET min_ == SetMin(KeySet(payload))
           max_ == SetMax(KeySet(payload))
       IN  /\ KeySet(payload) = min_..max_
           /\ LookedUp \in min_..max_ =>
                  /\ last.res.tag = "Some"
                  /\ map.entries[last.res.index] = PayloadEntry(LookedUp)
           /\ LookedUp \in {min_ - 1, max_ + 1} => last.res = None

(* get_mut of the largest key of a range map whose payload came unsorted *)
C7_Witness ==
    /\ IsLookup({"get_mut"})
    /\ map.rep = "IntegerRange"
    /\ map.tag = "direct"
    /\ Len(payload) >= 3
    /\ payload # map.entries
    /\ map.min < 0
    /\ LookedUp = map.max
    /\ last.res = Some(Len(payload))

----------------------------------------------------------------------------
(* Properties of the selection, under SpecSelect. *)

Selected == pc = "selected"

(* The representation the slice-key analysis names. *)
NamedBy(slice_analysis) ==
    CASE slice_analysis.tag = "Normal" -> "Common"
      [] slice_analysis.tag = "Length" -> "Length"
      [] slice_analysis.tag = "LeftHandSubslice" -> "LeftSlice"
      [] slice_analysis.tag = "RightHandSubslice" -> "RightSlice"

WindowPassed ==
    sel.slice_analysis.tag \in {"LeftHandSubslice", "RightHandSubslice"} =>
        /\ sel.out.start = sel.slice_analysis.subslice_index
        /\ sel.out.end = sel.slice_analysis.subslice_index + sel.slice_analysis.subslice_len

(* C8: FrozenMap::new and FrozenSet::new select Scanning exactly when the
   payload has fewer than 4 entries, whatever the key type. *)
C8_ScanningBelowFour ==
    Selected => ((RepOf(sel.out.tag) = "Scanning") <=> (sel.n < 4))

(* FrozenSet::new on 4 entries of a key type without analysis *)
C8_Witness ==
    /\ Selected
    /\ sel.facade = "FrozenSet"
    /\ sel.kt = "i32"
    /\ sel.n = 4
    /\ RepOf(sel.out.tag) = "Common"

(* C9: for a payload of at least 4 entries of an integer key type, of any
   width or signedness, the facade selects IntegerRange when the keys are
   dense and consecutive and Integer when the range has a hole. *)
C9_IntegerKeysAreAnalysed ==
    (/\ pc = "built"
     /\ FacadeBuilt
     /\ IsIntType(kind)
     /\ Len(payload) >= 4)
    => map.rep = IF analyze_int_keys(KeysOf(payload)) = "Range"
                 THEN "IntegerRange" ELSE "Integer"

(* C10, as stated: for string keys and at least 4 entries the facade builds
   the representation the slice-key analysis names, for every payload size,
   and passes the window start..start+len unchanged. *)
C10_AnalysisNamesTheMap ==
    (Selected /\ sel.kt = "String" /\ sel.n >= 4)
    => /\ RepOf(sel.out.tag) = NamedBy(sel.slice_analysis)
       /\ WindowPassed

(* C10, amended: that holds for 4 to 255 entries; past 255 entries Length and
   Normal both give Common (with usize descriptors), and the slice maps are
   built as named with the window unchanged. *)
C10_AnalysisNamesTheSmallMap ==
    (Selected /\ sel.kt = "String" /\ sel.n >= 4)
    => /\ sel.n <= 255 =>
              /\ RepOf(sel.out.tag) = NamedBy(sel.slice_analysis)
              /\ WidthOf(sel.out.tag) = "u8"
       /\ sel.n > 255 =>
              /\ RepOf(sel.out.tag) =
                     IF sel.slice_analysis.tag = "Length" THEN "Common"
                     ELSE NamedBy(sel.slice_analysis)
              /\ WidthOf(sel.out.tag) = "usize"
       /\ WindowPassed

(* 256 string keys of pairwise different lengths *)
C10_Witness ==
    /\ Selected
    /\ sel.kt = "String"
    /\ sel.n = 256
    /\ sel.slice_analysis.tag = "Length"
    /\ sel.out.tag = "CommonLarge"

(* C11: two payloads with the same keys in the same order and different
   values get the same representation, the same descriptor width and the
   same window from FrozenMap::new. *)
C11_ValuesDoNotSelect ==
    pc = "paired"
    => /\ sel.out = sel.out2
       /\ RepOf(sel.out.tag) = RepOf(sel.out2.tag)
       /\ WidthOf(sel.out.tag) = WidthOf(sel.out2.tag)

(* dense u32 keys whose second payload has values that are not dense *)
C11_Witness ==
    /\ pc = "paired"
    /\ kind = "u32"
    /\ KeysOf(sel.other) = KeysOf(payload)
    /\ sel.other # payload
    /\ analyze_int_keys([i \in DOMAIN sel.other |-> sel.other[i][2]]) = "Normal"
    /\ sel.out2.tag = "U32Range"

(* C12: for every payload size N, the variant either facade selects over a
   HashTable (every one but Scanning and IntegerRange, which have no
   descriptors) has a descriptor width S with N <= S::MAX: u8 up to 255
   entries, usize past that; the capacity panic of HashTable::new is not
   reached. *)
C12_WidthHoldsThePayload ==
    (Selected /\ RepOf(sel.out.tag) \notin {"Scanning", "IntegerRange"})
    => /\ ~TooManyFor(WidthOf(sel.out.tag), sel.n)
       /\ WidthOf(sel.out.tag) = "u8" <=> sel.n <= 255

(* 256 u32 keys with a hole: the first size that needs wide descriptors *)
C12_Witness ==
    /\ Selected
    /\ sel.kt = "u32"
    /\ sel.int_analysis = "Normal"
    /\ sel.n = 256
    /\ sel.out.tag = "U32Large"

(* C13: on a map built from a payload whose keys are pairwise distinct,
   map[k] (Index and IndexMut) panics exactly when k is not a key of the
   payload and otherwise refers to the slot of k, the one get and get_mut
   return; get, get_mut, get_key_value, get_many_mut and contains_key never
   panic on an absent key. *)
C13_IndexPanicsOnlyOnAbsent ==
    (pc = "done" /\ Distinct(KeysOf(payload)))
    => /\ last.op \in {"index", "index_mut"}
          => IF LookedUp \in KeySet(payload)
             THEN /\ last.res.tag = "Some"
                  /\ map.entries[last.res.index] = PayloadEntry(LookedUp)
             ELSE last.res.tag = "Panic"
       /\ (/\ last.op \in {"get", "get_mut", "get_key_value", "get_many_mut",
                            "contains_key"}
           /\ \E i \in DOMAIN last.keys : last.keys[i] \notin KeySet(payload))
          => last.res.tag # "Panic"

(* C14: for the same key type and the same pairs, frozen_map! constructs the
   representation FrozenMap::new selects, at every payload size, the
   Scanning threshold included. *)
C14_MacroSelectsAsTheFacade ==
    pc = "expanded" => RepOfType(sel.out.map_type) = RepOf(sel.out2.tag)

(* The value of the last write to k among the writes ws. *)
LastWritten(ws, k) ==
    LET j == CHOOSE j \in DOMAIN ws :
                 ws[j][1] = k /\ \A i \in DOMAIN ws : ws[i][1] = k => i <= j
    IN  ws[j][2]

(* A step on a constructed map keeps the keys, their positions, the bucket
   descriptors and len(); a read keeps the whole map; a write changes the
   value of entries with an addressed key only. *)
FrameStep ==
    (map.rep # "none" /\ Distinct(KeysOf(payload)))
    => /\ KeysOf(map'.entries) = KeysOf(map.entries)
       /\ [map' EXCEPT !.entries = <<>>] = [map EXCEPT !.entries = <<>>]
       /\ FrozenMap_len(map') = FrozenMap_len(map)
       /\ last'.op \notin {"get_mut", "index_mut", "get_many_mut"} => map' = map
       /\ \A i \in DOMAIN map.entries :
              map'.entries[i] # map.entries[i] =>
                  /\ last'.op \in {"get_mut", "index_mut", "get_many_mut"}
                  /\ map.entries[i][1] \in Range(last'.keys)

(* A get of each key written returns the value last written for it. *)
ReadsBackTheLastWrite ==
    (pc = "done" /\ last.op = "read_back" /\ Distinct(KeysOf(payload)))
    => /\ last.res.tag = "Some"
       /\ \A i \in DOMAIN last.keys :
              map.entries[last.res.indices[i]] =
                  <<last.keys[i], LastWritten(last.items, last.keys[i])>>

(* C15: after construction (payload keys pairwise distinct) no step changes
   the key set, the positions of the entries, the bucket descriptors or
   len(); reads leave the map unchanged; a write through get_mut, index_mut
   or get_many_mut changes only the value of an addressed key, and get(k)
   then returns the value last written for k. *)
C15_WritesChangeOneValue ==
    /\ [][FrameStep]_vars
    /\ []ReadsBackTheLastWrite

(* C16: keys() yields the first components and values() the second
   components of what iter() yields, in the same order and the same number,
   whether drained by next() or by fold(). *)
C16_KeysAndValuesFollowIter ==
    IsLookup({"keys", "values"})
    => LET its == Iter_collect(FrozenMap_iter(map))
       IN  /\ Len(last.items) = Len(its)
           /\ \A i \in DOMAIN its :
                  last.items[i] = its[i][IF last.op = "keys" THEN 1 ELSE 2]

(* values() folded over a hash table that stores the payload in another
   order *)
C16_Witness ==
    /\ IsLookup({"values"})
    /\ last.flag
    /\ map.rep = "Integer"
    /\ Len(payload) >= 4
    /\ map.entries # payload
    /\ Len(last.items) = Len(payload)
    /\ last.items = [i \in DOMAIN map.entries |-> map.entries[i][2]]

(* The values of the two sets, and the operations that ran. *)
ValuesA == KeySet(payload)

ValuesB == KeySet(sel.other)

RanOn(op_) == pc = "done" /\ last.op = op_

ProperSets == Distinct(KeysOf(payload)) /\ Distinct(KeysOf(sel.other))

(* C17: for two sets built from payloads without repeated values,
   a.union(b) yields every value that is in a or in b and no value twice,
   whichever set is larger and when the lengths are equal, without a
   panic. *)
C17_UnionYieldsEachValueOnce ==
    (RanOn("union") /\ ProperSets)
    => /\ last.res # Panicked
       /\ Range(last.items) = ValuesA \cup ValuesB
       /\ Distinct(last.items)

(* C18: a.is_disjoint(b) is true exactly when a.intersection(b) yields
   nothing, and it equals b.is_disjoint(a); none of them panics. *)
C18_DisjointIsEmptyIntersection ==
    RanOn("is_disjoint")
    => /\ last.res # Panicked
       /\ last.flags[1] <=> (last.items = <<>>)
       /\ last.flags[1] <=> last.flags[2]

(* C19: a.is_subset(b) is true exactly when b contains every value of a,
   also for sets built from a payload that repeats a value, and
   b.is_superset(a) equals a.is_subset(b). *)
C19_SubsetIsInclusion ==
    RanOn("is_subset")
    => /\ last.res # Panicked
       /\ last.flags[1] <=> (ValuesA \subseteq ValuesB)
       /\ last.flags[2] <=> last.flags[1]

(* The hash code the closure handed to HashTable::new gives key. *)
TableHash(kt, m, key, u) ==
    CASE m.rep = "Integer" -> as_u64(key)
      [] m.rep = "Common" -> CommonMap_hash_code(kt, m.bh, key)
      [] m.rep = "LeftSlice" -> LeftSliceMap_hash_code(m.bh, key, m.start, m.end)
      [] m.rep = "Length" -> Len(key)
      [] m.rep = "RightSlice" -> RightSliceMap_table_code(m.bh, key, m.start, m.end, u)

(* Entry p (counted from 0) lies in the range recorded for the bucket of
   hash_code. *)
InBucket(m, p, hash_code) ==
    LET range == HashTable_get_hash_info(TableOf(m), hash_code)
    IN  range.start <= p /\ p < range.end

HasTable(m) == m.rep \in {"Integer", "Common", "LeftSlice", "Length", "RightSlice"}

(* C20: in every table HashTable::new builds with B buckets and the hash h
   (for a RightSliceMap, h with the value its unchecked slice produced), the
   entry at each position p lies in the half-open range recorded for bucket
   h(key) mod B. *)
C20_EntriesLieInTheirBucket ==
    (pc = "built" /\ HasTable(map))
    => \E u \in UBOutcomes \ {PANIC} :
           \A i \in DOMAIN map.entries :
               InBucket(map, i - 1, TableHash(kind, map, map.entries[i][1], u))

(* an IntegerMap in which two keys share a bucket and a bucket is empty *)
C20_Witness ==
    /\ pc = "built"
    /\ map.rep = "Integer"
    /\ map.num_slots >= 4
    /\ \E s \in DOMAIN map.slots : map.slots[s].max_index - map.slots[s].min_index >= 2
    /\ \E s \in DOMAIN map.slots : map.slots[s].max_index = map.slots[s].min_index
    /\ \A i \in DOMAIN map.entries :
           InBucket(map, i - 1, as_u64(map.entries[i][1]))

(* C21: in every table HashTable::new builds, each descriptor has
   0 <= min_index <= max_index <= number of entries, the non-empty ranges are
   pairwise disjoint and cover every entry position, a bucket without an
   entry has min_index = max_index = 0, and for every hash code the slot
   read by get_hash_info exists and its range lies inside the entries. *)
C21_DescriptorsPartitionTheEntries ==
    (pc = "built" /\ HasTable(map))
    => LET n == Len(map.entries)
           NonEmpty(s) == map.slots[s].min_index < map.slots[s].max_index
       IN  /\ map.num_slots >= 1
           /\ \A s \in DOMAIN map.slots :
                  /\ 0 <= map.slots[s].min_index
                  /\ map.slots[s].min_index <= map.slots[s].max_index
                  /\ map.slots[s].max_index <= n
                  /\ ~NonEmpty(s) => map.slots[s] = EmptySlot
           /\ \A s, t \in DOMAIN map.slots :
                  (s # t /\ NonEmpty(s) /\ NonEmpty(t))
                  => \/ map.slots[s].max_index <= map.slots[t].min_index
                     \/ map.slots[t].max_index <= map.slots[s].min_index
           /\ \A p \in 0..(n - 1) :
                  \E s \in DOMAIN map.slots :
                      map.slots[s].min_index <= p /\ p < map.slots[s].max_index
           /\ \A hash_code \in 0..(2 * HashSpace) :
                  /\ (hash_code % map.num_slots) + 1 \in DOMAIN map.slots
                  /\ LET range == HashTable_get_hash_info(TableOf(map), hash_code)
                     IN  0 <= range.start /\ range.start <= range.end /\ range.end <= n

(* a table of 8 buckets, at least three of them without an entry and two
   with entries *)
C21_Witness ==
    /\ pc = "built"
    /\ HasTable(map)
    /\ map.num_slots = 8
    /\ Cardinality({s \in DOMAIN map.slots : map.slots[s] = EmptySlot}) >= 3
    /\ Cardinality({s \in DOMAIN map.slots :
                        map.slots[s].min_index < map.slots[s].max_index}) >= 2
    /\ \A p \in 0..(Len(map.entries) - 1) :
           \E s \in DOMAIN map.slots :
               map.slots[s].min_index <= p /\ p < map.slots[s].max_index

----------------------------------------------------------------------------
(* HashTable::new at the capacity of its descriptor type S: payloads of up
   to U8_MAX + 2 entries with keys 0..n-1, ascending or descending. *)

TableWidths == {"u8", "u16", "usize"}

TableSlotCounts == {1, 3, HashSpace}

TablePayload(n, descending) ==
    [i \in 1..n |-> <<IF descending THEN n - i ELSE i - 1, 10 + i>>]

InitTable ==
    /\ pc = "sized"
    /\ kind = "u32"
    /\ payload \in {TablePayload(n, d) : n \in SelectSizes, d \in BOOLEAN}
    /\ map = NoMap
    /\ last = NoLast
    /\ sel = NoSel
    /\ peer = NoMap

(* HashTable::<u32, V, S>::new(payload, num_hash_slots, |k| k.as_u64()) *)
NewTable ==
    /\ pc = "sized"
    /\ \E S \in TableWidths, num_hash_slots \in TableSlotCounts :
           LET codes == [i \in DOMAIN payload |-> as_u64(payload[i][1])]
               table == HashTable_new(payload, num_hash_slots, codes, S)
           IN  /\ map' = TableMap("Integer", S, table, 0, 0, 0)
               /\ sel' = [sel EXCEPT !.n = Len(payload),
                                     !.out = [S |-> S, num_hash_slots |-> num_hash_slots]]
               /\ pc' = IF table.ok THEN "tabled" ELSE "panicked"
    /\ UNCHANGED <<kind, payload, last, peer>>

(* a lookup in the table, as IntegerMap::get does it *)
TableGet ==
    /\ pc = "tabled"
    /\ \E key \in {0, Len(payload) - 1, Len(payload)} :
           /\ key >= 0
           /\ last' = [NoLast EXCEPT !.op = "get", !.keys = <<key>>,
                                     !.res = IntegerMap_get(map, key)]
    /\ pc' = "probed"
    /\ UNCHANGED <<kind, payload, map, sel, peer>>

NextTable == NewTable \/ TableGet

SpecTable == InitTable /\ [][NextTable]_vars

(* C22: HashTable::new with descriptor type S panics exactly when the
   payload has more than S::MAX entries; a payload of exactly S::MAX entries
   is accepted, and no max_index = entry_index + num_entries wraps: every
   descriptor's range is as long as the number of keys of its bucket. *)
C22_PanicsExactlyAboveMax ==
    (pc \in {"tabled", "panicked"})
    => /\ (pc = "panicked") <=> \/ sel.out.S = "u8" /\ sel.n > U8_MAX
                                \/ sel.out.S = "u16" /\ sel.n > U16_MAX
       /\ pc = "tabled"
          => \A s \in DOMAIN map.slots :
                 /\ map.slots[s].max_index <= sel.n
                 /\ map.slots[s].max_index - map.slots[s].min_index
                        = Cardinality({i \in DOMAIN payload :
                                          as_u64(payload[i][1]) % map.num_slots = s - 1})

(* a u8 table of exactly U8_MAX entries whose last range ends at U8_MAX *)
C22_Witness ==
    /\ pc = "tabled"
    /\ sel.out.S = "u8"
    /\ sel.n = U8_MAX
    /\ Len(map.entries) = U8_MAX
    /\ \E s \in DOMAIN map.slots : map.slots[s].max_index = U8_MAX

(* C23: for a RightSliceMap built with the window (start, len), the range
   hashed for a stored key k is [Len(k) - start - len, Len(k) - start):
   lower <= upper <= Len(k), and exactly len bytes. *)
C23_HashedRangeIsWellFormed ==
    (pc = "built" /\ map.rep = "RightSlice")
    => \A i \in DOMAIN map.entries :
           LET k == map.entries[i][1]
               range == RightSliceMap_hashed_range(k, map.start, map.end)
           IN  /\ 0 <= range.start
               /\ range.start <= range.end
               /\ range.end <= Len(k)
               /\ range.end - range.start = map.end - map.start
               /\ range.start = Len(k) - map.end
               /\ range.end = Len(k) - map.start

(* C24: in a RightSliceMap the bucket-count analysis, the table construction
   and the lookup compute the same code for every key: 0 for a key shorter
   than the window's end, the hash of the window otherwise, and none of the
   three faults or underflows for any key length. *)
C24_OneRuleInThreePlaces ==
    (pc = "built" /\ map.rep = "RightSlice")
    => \A key \in Probes("String"), u \in UBOutcomes :
           LET analysed == RightSliceMap_analysis_code(map.bh, key, map.start, map.end, u)
               placed == RightSliceMap_table_code(map.bh, key, map.start, map.end, u)
               looked == RightSliceMap_hash_code(map, key, u)
               range == RightSliceMap_hashed_range(key, map.start, map.end)
           IN  /\ analysed = placed
               /\ placed = looked
               /\ looked # PANIC
               /\ Len(key) < map.end => looked = 0
               /\ Len(key) >= map.end => 0 <= range.start /\ range.start <= range.end

(* C25: IntegerRangeMap::from_vec returns only for payloads whose keys are
   min..=max, each once: the entry at offset i holds the key min + i, and
   get_key_value(k) returns a pair whose key is k. *)
C25_RangeMapHoldsEachKeyOnce ==
    (map.rep = "IntegerRange" /\ payload # <<>>)
    => /\ \A i \in DOMAIN map.entries : map.entries[i][1] = map.min + (i - 1)
       /\ (IsLookup({"get_key_value"}) /\ last.res.tag = "Some")
          => map.entries[last.res.index][1] = LookedUp

----------------------------------------------------------------------------
(* The slice-key analysis and the facade's choice on string keys of one
   length that differ in a single byte position, the first or the final. *)

(* n keys: common with one more byte in front or behind, the byte of key i
   being shift + i (or counted down). *)
OneByteApart(common, n, side, shift, descending) ==
    [i \in 1..n |->
        LET b == shift + (IF descending THEN n + 1 - i ELSE i)
        IN  <<IF side = "final" THEN Append(common, b) ELSE <<b>> \o common, 10 + i>>]

InitSlice ==
    /\ pc = "keys"
    /\ kind = "String"
    /\ payload \in {OneByteApart(common, n, side, shift, d) :
                        common \in Range(StrPool), n \in SCANNING_LIMIT..MaxN,
                        side \in {"first", "final"}, shift \in 0..1, d \in BOOLEAN}
    /\ map = NoMap
    /\ last = NoLast
    /\ sel = NoSel
    /\ peer = NoMap

(* FrozenMap::new on the payload: analyze_slice_keys, then new_string_map *)
AnalyseForMap ==
    /\ pc = "keys"
    /\ LET key_analysis == SliceAnalysisOf("String", payload)
       IN  sel' = [sel EXCEPT !.facade = "FrozenMap", !.kt = "String", !.n = Len(payload),
                              !.slice_analysis = key_analysis,
                              !.out = FrozenMap_new("String", Len(payload), "Normal",
                                                    key_analysis)]
    /\ pc' = "analysed"
    /\ UNCHANGED <<kind, payload, map, last, peer>>

(* FrozenSet::new on the keys: analyze_slice_keys, then new_string_set *)
AnalyseForSet ==
    /\ pc = "keys"
    /\ LET key_analysis == SliceAnalysisOf("String", payload)
       IN  sel' = [sel EXCEPT !.facade = "FrozenSet", !.kt = "String", !.n = Len(payload),
                              !.slice_analysis = key_analysis,
                              !.out = FrozenSet_new("String", Len(payload), "Normal",
                                                    key_analysis)]
    /\ pc' = "analysed"
    /\ UNCHANGED <<kind, payload, map, last, peer>>

NextSlice == AnalyseForMap \/ AnalyseForSet

SpecSlice == InitSlice /\ [][NextSlice]_vars

(* The keys have one length and agree at every position other than at. *)
DifferOnlyAt(keys, at) ==
    /\ \A i, j \in DOMAIN keys : Len(keys[i]) = Len(keys[j])
    /\ \A i, j \in DOMAIN keys :
           i # j => /\ keys[i][at] # keys[j][at]
                    /\ \A p \in DOMAIN keys[i] : p # at => keys[i][p] = keys[j][p]

(* C26: for four or more string keys of one length (two bytes or more) that
   differ only in their final byte the analysis is RightHandSubslice with
   start 0 and len 1 and the facade selects the right-slice representation
   with range 0..1; for keys that differ only in their first byte it is
   LeftHandSubslice with start 0 and len 1. *)
C26_LastByteGivesRightFirstByteLeft ==
    pc = "analysed"
    => LET keys == KeysOf(payload)
           len_k == Len(keys[1])
       IN  /\ (len_k >= 2 /\ DifferOnlyAt(keys, len_k))
              => /\ sel.slice_analysis = [tag |-> "RightHandSubslice",
                                          subslice_index |-> 0, subslice_len |-> 1]
                 /\ RepOf(sel.out.tag) = "RightSlice"
                 /\ sel.out.start = 0
                 /\ sel.out.end = 1
           /\ DifferOnlyAt(keys, 1)
              => /\ sel.slice_analysis = [tag |-> "LeftHandSubslice",
                                          subslice_index |-> 0, subslice_len |-> 1]
                 /\ RepOf(sel.out.tag) = "LeftSlice"

(* FrozenMap::new analysed keys of three bytes that differ in the final one *)
C26_Witness ==
    /\ pc = "analysed"
    /\ sel.facade = "FrozenMap"
    /\ Len(payload) >= SCANNING_LIMIT
    /\ Len(payload[1][1]) = 3
    /\ DifferOnlyAt(KeysOf(payload), 3)
    /\ sel.slice_analysis.tag = "RightHandSubslice"
    /\ sel.out.tag = "RightStringSliceSmall"

(* The slice range a facade-built slice map hashes for key. *)
SliceRangeOf(m, key) ==
    IF m.rep = "RightSlice" THEN RightSliceMap_hashed_range(key, m.start, m.end)
    ELSE [start |-> m.start, end |-> m.end]

(* C27: in a slice map the facade built from the analysis result
   (start, len), every stored key has start + len bytes or more, the windows
   of the stored keys are pairwise different, and the range given to
   SliceHash::hash for a stored key lies inside the key. *)
C27_WindowInsideEveryStoredKey ==
    (pc = "built" /\ FacadeBuilt /\ map.rep \in {"LeftSlice", "RightSlice"})
    => \A i \in DOMAIN map.entries :
           LET k == map.entries[i][1]
               align == IF map.rep = "LeftSlice" THEN 0 ELSE 1
               range == SliceRangeOf(map, k)
           IN  /\ Len(k) >= map.end
               /\ \A j \in DOMAIN map.entries :
                      i # j => Window(k, align, map.start, map.end - map.start)
                               # Window(map.entries[j][1], align, map.start,
                                        map.end - map.start)
               /\ 0 <= range.start
               /\ range.start <= range.end
               /\ range.end <= Len(k)

----------------------------------------------------------------------------
(* IntegerRangeMap over the signed key type i8: payloads whose keys are the
   contiguous range lo..=hi, ascending or descending. *)

RangeLows == {I8_MIN, I8_MIN + 1, 0 - (I8_MAX \div 2) - 1, 0 - (I8_MAX \div 2), 0 - 2, 0 - 1, 0}

RangeHighs == {0 - 1, 0, 1, I8_MAX \div 2, (I8_MAX \div 2) + 1, I8_MAX - 1, I8_MAX}

RangePayload(lo, hi, descending) ==
    [i \in 1..(hi - lo + 1) |-> <<IF descending THEN hi + 1 - i ELSE lo + i - 1, 10 + i>>]

InitSigned ==
    /\ pc = "i8_keys"
    /\ kind = "i8"
    /\ payload \in {RangePayload(r[1], r[2], d) :
                        r \in {x \in RangeLows \X RangeHighs : x[1] <= x[2]},
                        d \in BOOLEAN}
    /\ map = NoMap
    /\ last = NoLast
    /\ sel = NoSel
    /\ peer = NoMap

(* IntegerRangeMap::<i8, V>::from_vec(payload), in a build with or without
   overflow checks; a panic leaves no map *)
FromVecSigned ==
    /\ pc = "i8_keys"
    /\ \E overflow_checks \in BOOLEAN :
           LET m == IntegerRangeMap_from_vec_K("i8", payload, overflow_checks)
           IN  /\ map' = IF m.rep = "none" THEN NoMap ELSE [m EXCEPT !.tag = "direct"]
               /\ last' = [NoLast EXCEPT !.op = "from_vec", !.flag = overflow_checks]
               /\ pc' = IF m.rep = "none" THEN "i8_panicked" ELSE "i8_built"
    /\ UNCHANGED <<kind, payload, sel, peer>>

(* map.get(&key) for the smallest, the largest and a middle key *)
GetSigned ==
    /\ pc = "i8_built"
    /\ \E key \in {map.min, map.max, (map.min + map.max) \div 2} :
           last' = [last EXCEPT !.op = "get", !.keys = <<key>>,
                                !.res = IntegerRangeMap_get_K("i8", map, key, last.flag)]
    /\ pc' = "i8_done"
    /\ UNCHANGED <<kind, payload, map, sel, peer>>

NextSigned == FromVecSigned \/ GetSigned

SpecSigned == InitSigned /\ [][NextSigned]_vars

(* C28: for every payload of distinct i8 keys that form a contiguous range
   [min, max], ranges wider than i8::MAX included, from_vec returns a map,
   the differences max - min and k - min stay inside i8, and get(k) returns
   the value stored for k. *)
C28_SignedRangeNeverOverflows ==
    LET min_ == SetMin(KeySet(payload))
        max_ == SetMax(KeySet(payload))
    IN  /\ pc # "i8_panicked"
        /\ pc \in {"i8_built", "i8_done"}
           => /\ K_sub("i8", max_, min_, TRUE).panic = FALSE
              /\ \A k \in KeySet(payload) : K_sub("i8", k, min_, TRUE).panic = FALSE
        /\ pc = "i8_done"
           => /\ last.res.tag = "Some"
              /\ map.entries[last.res.index] = PayloadEntry(LookedUp)

(* C29: after any number of next() calls on a.union(b), the lower bound of
   size_hint() is at most the number of values still to be yielded, and that
   number is at most the upper bound. *)
C29_UnionSizeHintBoundsTheRest ==
    (RanOn("union_size_hint") /\ last.res # Panicked)
    => /\ last.keys[1] <= Len(last.items)
       /\ Len(last.items) <= last.keys[2]

(* C30: for the Iter of a map of n entries after j calls of next(): len(),
   both bounds of size_hint() and count() are max(n - j, 0); the calls
   returned the entries 0..min(j, n) - 1 in order and None afterwards; the
   index is at most n; a clone yields the remaining entries, as the iterator
   itself does. *)
C30_IterCountsDownToZero ==
    (pc = "done" /\ last.op = "iter_steps")
    => LET n == Len(map.entries)
           j == last.n
           left == IF n >= j THEN n - j ELSE 0
       IN  /\ last.keys[1] = left
           /\ last.keys[2] = left
           /\ last.keys[3] = left
           /\ last.keys[4] = left
           /\ last.keys[5] <= n
           /\ last.items = SubSeq(map.entries, 1, n - left)
           /\ last.res.indices = SubSeq(map.entries, n - left + 1, n)
           /\ last.flag

(* one call of next() more than the entries of a hash-table map of four
   entries or more *)
C30_Witness ==
    /\ pc = "done"
    /\ last.op = "iter_steps"
    /\ HasTable(map)
    /\ Len(map.entries) >= 4
    /\ last.n = Len(map.entries) + 1
    /\ Len(last.items) = Len(map.entries)
    /\ last.keys[1] = 0

====
